---- MODULE Spec2Model ----
(***************************************************************************)
(* Billing core of the brightstaff gateway: the in-memory spending         *)
(* counters (billing/counters.rs), the usage flusher (billing/flusher.rs), *)
(* the durable tables it writes (db/queries.rs), the /usage/record handler *)
(* (handlers/usage_record.rs), /auth/check (handlers/auth_check.rs) with   *)
(* its auth cache (auth/cache.rs), the price calculator and the budget     *)
(* checker (billing/price_calculator.rs, billing/budget_checker.rs).       *)
(*                                                                         *)
(* The specifications share the variables:                                 *)
(*   SpecCounters  the SpendingCounters API called by concurrent tasks     *)
(*   SpecBilling   /usage/record handlers, the usage channel, flush_loop   *)
(*                 and the store                                           *)
(*   SpecDelivery  the same pipeline fed with one request body;            *)
(*                 FairDelivery adds the scheduling fairness               *)
(*   SpecAuth      managed-mode /auth/check against limits and counters    *)
(*   SpecShutdown  SpecBilling with the usage channel being closed;        *)
(*                 FairShutdown adds the scheduling fairness               *)
(*   SpecPricing   /usage/record and price_batch over usage_log;           *)
(*                 SpecChain is the same with a registry-priced model      *)
(*   SpecBudget    check_budgets against GET /budget/blocked               *)
(*   SpecCache     get_or_resolve of concurrent /auth/check handlers,      *)
(*                 token revocation and expiry                             *)
(***************************************************************************)
EXTENDS Integers, Sequences, FiniteSets, TLC

\* ------------------------------------------------------------------ bounds

\* number of SpendingCounters::record_usage calls of the SpecCounters tasks
MaxRecords == 2
\* number of /usage/record requests of one run
MaxReq == 2
\* last day the clock reaches (day 0 is the day the process starts)
MaxDay == 1
\* cost units per micro-cent: an f64 cost in cents is modelled as an integer
\* number of 1/SubMicro micro-cents, so that costs below one micro-cent exist
SubMicro == 2
\* modelled capacity of the usage channel (mpsc::channel(10_000))
ChanCap == 2
\* modelled size threshold of the pending batch (pending_events.len() >= 1000)
BatchThreshold == 2
\* number of flushes the store fails in one run
MaxFail == 1
\* largest limit_cents of a spending limit row
MaxLimitCents == 2
\* rows usage_log holds when the process starts (SpecPricing)
MaxRows == 2
\* modelled LIMIT of get_unpriced_usage (1000 in price_batch)
PriceBatchLimit == 2
\* number of price_batch runs that return Err in one run of the model
MaxPriceFail == 1
\* number of pipes of an auth context
MaxPipes == 2
\* entries of the llm_providers configuration
MaxProviders == 2
\* responses whose turn is stored
MaxTurns == 2
\* the limit, in micro-cents, the period runs pass to check_budget
CheckLimit == 2
\* seconds that pass in one step of the auth cache's clock
ClockStep == 30

\* ------------------------------------------------------- program constants

\* cents -> micro-cents
MicroPerCent == 10000
\* AuthCache: time_to_live, in seconds
CacheTtl == 60
\* custom prices are per million tokens
PerMillion == 1000000

\* ------------------------------------------------------------------- state

VARIABLES
    counters,     \* SpendingCounters.counters: CounterKey -> AtomicI64
    today,        \* Utc::now().date_naive(): [d |-> day, m |-> first day of its month]
    hOp,          \* SpecCounters: the last call made on the counters
    hRet,         \* SpecCounters: what that call returned (an i64)
    hKey,         \* SpecCounters: the key that call addressed
    hDeltas,      \* SpecCounters: the Vec returned by the last snapshot_and_reset
    hOut,         \* SpecCounters: that Vec is still held by the flusher
    nRec,         \* SpecCounters: record_usage calls made so far
    nReq,         \* /usage/record requests received so far
    sending,      \* handlers suspended in usage_tx.send(event): their events
    closed,       \* every Sender of the usage channel has been dropped
    ureq,         \* /usage/record: the body of the last request (NoBody: none)
    uresp,        \* /usage/record: the response to it (status 0: none)
    chan,         \* the usage channel (mpsc), oldest event first
    pending,      \* flush_loop: pending_events
    fpc,          \* flush_loop: "idle" in select!, "flushing" awaiting the store
    fpath,        \* flush_loop: the arm that started the flush
    batch,        \* flush_loop: batch
    deltas,       \* flush_loop: deltas
    fres,         \* flush_loop: the Result of the last flush
    nFail,        \* flushes the store has failed so far
    usage_log,    \* store: the usage_log table, in insertion order
    durable,      \* store: spending_counters, key -> spent_micro_cents
    recorded,     \* history: per key, the sum of the amounts passed to record_usage
    snapPre,      \* history: counters as they were when the last snapshot began
    snapped,      \* history: snapshot_and_reset has run at least once
    limits,       \* store: spending_limits, (entity_type, entity_id, period_type) -> row
    resp,         \* /auth/check: the response being returned (NoResp: none)
    custom,       \* store: custom_model_pricing, (project_id or global, model) -> row
    ppc,          \* price_batch: "idle" between runs, "marking" in mark_usage_priced
    pUpdates,     \* price_batch: updates, the (id, cost_cents) pairs of the run
    nPriceFail,   \* price_batch runs that have returned Err so far
    marks,        \* history: per usage_log row id, the UPDATEs executed on it
    blocked,      \* BudgetChecker.blocked_projects
    bpc,          \* check_budgets: "idle", "clearing" (before clear()), "inserting"
    newly_blocked, \* check_budgets: newly_blocked
    bres,         \* the Result of the last check_budgets run
    seen,         \* GET /budget/blocked: the set being returned (NoRead: none)
    bPrev,        \* history: blocked_projects when the current run began
    areq,         \* /auth/check: what the request being answered met (NoReq: none)
    tok,          \* store: the proxy_tokens row of the token, joined with its project and user
    cache,        \* AuthCache.cache: token hash -> the cached context and its age
    auth,         \* per /auth/check handler, its position in get_or_resolve
    gone,         \* history: the token was revoked and its cache entry had expired
    call,         \* the arguments of the function a specification applies (NoCall: none)
    ret,          \* what that function returned (NoRet: not called yet)
    keys,         \* store: registered_api_keys, key_hash -> row
    entries,      \* ApiKeyRegistry.entries
    rpc,          \* reload: "idle", or "swapping" once the query has returned
    new_entries,  \* reload: new_entries
    rres,         \* the Result of the last reload
    fwreq,        \* firewall /auth/check: the request being answered (NoFwReq: none)
    fwresp,       \* firewall /auth/check: its response (status 0: none)
    qseen,        \* history: registered_api_keys as the query of the running reload read it
    turns,        \* state_storage: response_id -> stored turn (NoStorage: not configured)
    lpc,          \* llm_chat_inner: the phase the request in flight has completed
    lreq,         \* llm_chat_inner: the request in flight (NoLlmReq: none)
    lctx,         \* llm_chat_inner: state_ctx and the request's input as hydrated
    lresp,        \* llm_chat_inner: the status returned to the client (0: none yet)
    upstream,     \* the input of the body POSTed upstream for the request (NoSend: none)
    ltrace,       \* history: the phases of the request in flight, in order
    lhist,        \* history: per stored response id, its request's previous id, items and output
    nTurn,        \* response ids synthesized so far
    ac            \* handle_auth_check (managed mode): its position and its phases so far

harnessVars == <<hOp, hRet, hKey, hDeltas, hOut, nRec>>
handlerVars == <<nReq, sending, closed, ureq, uresp>>
flusherVars == <<pending, fpc, fpath, batch, deltas, fres>>
storeVars == <<usage_log, durable, nFail>>
histVars == <<recorded, snapPre, snapped>>
authVars == <<limits, resp, areq>>
priceVars == <<custom, ppc, pUpdates, nPriceFail, marks>>
\* the background workers' state, which no hot-path or flusher step touches
budgetVars == <<blocked, bpc, newly_blocked, bres, seen, bPrev>>
\* the auth cache and the token row it caches
cacheVars == <<tok, cache, auth, gone>>
\* the arguments and the result of a function applied on its own
extVars == <<call, ret>>
\* the API-key registry, its store table and the firewall-mode handler
regVars == <<keys, entries, rpc, new_entries, rres, fwreq, fwresp, qseen>>
\* the services that run beside billing, pricing, budgets and the auth cache
\* the LLM request handler, the conversation state store and the phases of admission
convVars == <<turns, lpc, lreq, lctx, lresp, upstream, ltrace, lhist, nTurn, ac>>
restVars == <<regVars, convVars>>
bgVars == <<priceVars, budgetVars, cacheVars, extVars, restVars>>

vars == <<counters, today, harnessVars, handlerVars, chan, flusherVars, storeVars, histVars,
          authVars, bgVars>>

\* ------------------------------------------------------------------ helpers

NoUser == "none"
Users == {"u1"}
Projects == {"p1"}
PeriodTypes == {"daily", "monthly"}

Val(c, k) == IF k \in DOMAIN c THEN c[k] ELSE 0

EmptyMap == [k \in {} |-> 0]

\* AtomicI64::fetch_add on the entry of key k, created at 0 when absent
FetchAdd(c, k, v) ==
    [x \in (DOMAIN c) \cup {k} |-> Val(c, x) + (IF x = k THEN v ELSE 0)]

CounterKey(entity_type, entity_id, period_type, period_start) ==
    [entity_type |-> entity_type, entity_id |-> entity_id,
     period_type |-> period_type, period_start |-> period_start]

\* a faulty variant of PeriodStart: the month's counter starts today as well
PeriodStart_today(period_type, date) == date.d

\* the period_start record_usage and get_current compute from the clock
PeriodStart(period_type, date) ==
    IF period_type = "daily" THEN date.d
    ELSE IF period_type = "monthly" THEN date.m
    ELSE date.d

CurrentKey(entity_type, entity_id, period_type, date) ==
    CounterKey(entity_type, entity_id, period_type, PeriodStart(period_type, date))

\* ------------------------------------------------- SpendingCounters (pure)

check_budget(c, date, entity_type, entity_id, period_type, limit_micro_cents) ==
    IF period_type \notin {"daily", "monthly"} THEN TRUE
    ELSE LET key == CurrentKey(entity_type, entity_id, period_type, date)
         IN  IF key \in DOMAIN c THEN c[key] < limit_micro_cents ELSE TRUE

\* a faulty variant of record_usage: the entry is stored to, not added to
record_usage_store(c, date, entity_type, entity_id, period_type, micro_cents) ==
    LET key == CurrentKey(entity_type, entity_id, period_type, date)
    IN  [x \in (DOMAIN c) \cup {key} |-> IF x = key THEN micro_cents ELSE c[x]]

record_usage(c, date, entity_type, entity_id, period_type, micro_cents) ==
    FetchAdd(c, CurrentKey(entity_type, entity_id, period_type, date), micro_cents)

\* the value record_usage returns: fetch_add's previous value + micro_cents
record_usage_ret(c, date, entity_type, entity_id, period_type, micro_cents) ==
    Val(c, CurrentKey(entity_type, entity_id, period_type, date)) + micro_cents

get_current(c, date, entity_type, entity_id, period_type) ==
    Val(c, CurrentKey(entity_type, entity_id, period_type, date))

\* snapshot_and_reset: every entry is swapped with 0 ...
snapshot_reset(c) == [k \in DOMAIN c |-> 0]

\* ... and the entries whose value was > 0 are returned. The Vec's order is the
\* map's iteration order, which is unspecified: it is chosen where it is used.
snapshot_deltas(c) == [k \in {x \in DOMAIN c : c[x] > 0} |-> c[k]]

restore_deltas(c, ds) ==
    [x \in (DOMAIN c) \cup (DOMAIN ds) |-> Val(c, x) + Val(ds, x)]

\* ------------------------------------------------------------ SpecCounters

\* history bookkeeping: add v to the tally of key k
Tally(h, k, v) == [x \in (DOMAIN h) \cup {k} |-> (IF x \in DOMAIN h THEN h[x] ELSE 0)
                                                  + (IF x = k THEN v ELSE 0)]

RecordValues == {-1, 1, 2}

Day0 == [d |-> 0, m |-> 0]

NoKey == CounterKey("", "", "", 0)

\* the state after main() has built the services, with an empty store
\* no /auth/check response is being returned
NoResp == [status |-> 0, error |-> "", headers |-> {}]
\* no /auth/check is being answered
NoReq == [bearer |-> FALSE, resolved |-> "none", has_model |-> FALSE, pipe_found |-> FALSE,
          client_ok |-> FALSE, user_q_ok |-> FALSE, project_q_ok |-> FALSE]
\* the handlers of /auth/check that can be in flight at once
AuthProcs == {"a1", "a2"}
\* a handler that is not inside get_or_resolve
IdleProc == [pc |-> "idle", res |-> "none", valid_at_start |-> FALSE, gone_at_start |-> FALSE]
\* a proxy_tokens row that resolve_token_by_hash selects
ValidToken == [token_active |-> TRUE, project_active |-> TRUE, user_active |-> TRUE,
               expired |-> FALSE]

\* no function is applied on its own
NoCall == [fn |-> "none"]
NoRet == [ok |-> FALSE, err |-> "not called"]
NoBearer == "none"
NoId == "none"
NoStorage == [x \in {"<not configured>"} |-> [input_items |-> << >>, output |-> << >>]]
NoSend == << >>
NoLlmReq == [api |-> "none", input |-> << >>, previous_response_id |-> NoId, valid |-> FALSE,
             native |-> FALSE, lookup |-> "none"]
NoCtx == [should_manage_state |-> FALSE, original_input_items |-> << >>, input |-> << >>]
IdleCheck == [pc |-> "idle", trace |-> << >>]
NoBody == [user_id |-> "none", project_id |-> "none", model |-> "none",
           input_tokens |-> 0, output_tokens |-> 0, firewall_mode |-> FALSE]
NoUsageResp == [status |-> 0, cost_cents |-> 0]
NoFwReq == [bearer |-> NoBearer, found |-> << >>, sent |-> FALSE]
NoFwResp == [status |-> 0, error |-> "", headers |-> [k \in {} |-> 0]]

\* no GET /budget/blocked response is being returned
NoRead == [blocked |-> {"none"}]

\* the unique key of spending_limits: (entity_type, entity_id, period_type)
LimitKeys ==
    [entity_type : {"user"}, entity_id : Users, period_type : PeriodTypes]
        \cup [entity_type : {"project"}, entity_id : Projects, period_type : PeriodTypes]

LimitRows == [limit_cents : 1..MaxLimitCents, is_active : BOOLEAN]

NoRow == [limit_cents |-> 0, is_active |-> FALSE]

\* the contents spending_limits may have when the process starts
LimitTables ==
    { [k \in {x \in LimitKeys : f[x] # NoRow} |-> f[k]] :
        f \in [LimitKeys -> LimitRows \cup {NoRow}] }

\* the process after main has built its state; the store's tables are set by
\* each specification's initial predicate
InitServices ==
    /\ counters = EmptyMap
    /\ today = Day0
    /\ hOp = "init"
    /\ hRet = 0
    /\ hKey = NoKey
    /\ hDeltas = EmptyMap
    /\ hOut = FALSE
    /\ nRec = 0
    /\ nReq = 0
    /\ sending = {}
    /\ closed = FALSE
    /\ ureq = NoBody
    /\ uresp = NoUsageResp
    /\ chan = <<>>
    /\ pending = <<>>
    /\ fpc = "idle"
    /\ fpath = "none"
    /\ batch = <<>>
    /\ deltas = EmptyMap
    /\ fres = "none"
    /\ nFail = 0
    /\ recorded = EmptyMap
    /\ snapPre = EmptyMap
    /\ snapped = FALSE
    /\ resp = NoResp
    /\ ppc = "idle"
    /\ pUpdates = << >>
    /\ nPriceFail = 0
    /\ marks = EmptyMap
    /\ blocked = {}
    /\ bpc = "idle"
    /\ newly_blocked = {}
    /\ bres = "none"
    /\ seen = NoRead
    /\ bPrev = {}
    /\ areq = NoReq
    /\ cache = EmptyMap
    /\ auth = [p \in AuthProcs |-> IdleProc]
    /\ gone = FALSE
    /\ ret = NoRet
    /\ entries = EmptyMap
    /\ rpc = "idle"
    /\ new_entries = EmptyMap
    /\ rres = "none"
    /\ fwreq = NoFwReq
    /\ fwresp = NoFwResp
    /\ qseen = EmptyMap
    /\ lpc = "idle"
    /\ lreq = NoLlmReq
    /\ lctx = NoCtx
    /\ lresp = 0
    /\ upstream = NoSend
    /\ ltrace = << >>
    /\ lhist = EmptyMap
    /\ nTurn = 0
    /\ ac = IdleCheck

\* ... and no function is being applied on its own
InitProcess == InitServices /\ call = NoCall

Init ==
    /\ InitProcess
    /\ limits = EmptyMap
    /\ usage_log = << >>
    /\ durable = EmptyMap
    /\ custom = EmptyMap
    /\ tok = ValidToken
    /\ keys = EmptyMap
    /\ turns = EmptyMap

\* a task calls record_usage
CRecord ==
    /\ nRec < MaxRecords
    /\ \E et \in {"project"}, id \in Projects, pt \in PeriodTypes, v \in RecordValues :
        /\ counters' = record_usage(counters, today, et, id, pt, v)
        /\ hRet' = record_usage_ret(counters, today, et, id, pt, v)
        /\ hKey' = CurrentKey(et, id, pt, today)
        /\ recorded' = Tally(recorded, CurrentKey(et, id, pt, today), v)
    /\ hOp' = "record"
    /\ nRec' = nRec + 1
    /\ UNCHANGED <<authVars, bgVars, today, hDeltas, hOut, snapPre, snapped, handlerVars, chan, flusherVars, storeVars>>

\* a task calls get_current
CGet ==
    /\ \E et \in {"project"}, id \in Projects, pt \in PeriodTypes :
        /\ hRet' = get_current(counters, today, et, id, pt)
        /\ hKey' = CurrentKey(et, id, pt, today)
    /\ hOp' = "get"
    /\ UNCHANGED <<authVars, bgVars, counters, today, hDeltas, hOut, nRec, histVars, handlerVars, chan, flusherVars, storeVars>>

\* the flusher calls snapshot_and_reset
CSnapshot ==
    /\ ~hOut
    /\ hDeltas' = snapshot_deltas(counters)
    /\ counters' = snapshot_reset(counters)
    /\ hOut' = TRUE
    /\ snapPre' = counters
    /\ snapped' = TRUE
    /\ hOp' = "snapshot"
    /\ hRet' = 0
    /\ hKey' = NoKey
    /\ UNCHANGED <<authVars, bgVars, today, nRec, recorded, handlerVars, chan, flusherVars, storeVars>>

\* the flush failed: the flusher calls restore_deltas on the Vec it holds
CRestore ==
    /\ hOut
    /\ counters' = restore_deltas(counters, hDeltas)
    /\ hOut' = FALSE
    /\ hOp' = "restore"
    /\ hRet' = 0
    /\ hKey' = NoKey
    /\ UNCHANGED <<authVars, bgVars, today, hDeltas, nRec, histVars, handlerVars, chan, flusherVars, storeVars>>

\* the flush succeeded: the flusher drops the Vec
CFlushed ==
    /\ hOut
    /\ hOut' = FALSE
    /\ hOp' = "flushed"
    /\ hRet' = 0
    /\ hKey' = NoKey
    /\ UNCHANGED <<authVars, bgVars, counters, today, hDeltas, nRec, histVars, handlerVars, chan, flusherVars, storeVars>>

\* midnight: the next day begins, in the same month or as the first of the next
AdvanceDay ==
    /\ today.d < MaxDay
    /\ \E m \in {today.m, today.d + 1} : today' = [d |-> today.d + 1, m |-> m]
    /\ UNCHANGED <<authVars, bgVars, counters, harnessVars, histVars, handlerVars, chan, flusherVars, storeVars>>

NextCounters == CRecord \/ CGet \/ CSnapshot \/ CRestore \/ CFlushed \/ AdvanceDay

SpecCounters == Init /\ [][NextCounters]_vars

\* ------------------------------------------------- claims on the counters

\* C6 (counter additivity): as long as no snapshot_and_reset has run, get_current
\* of every entity and period returns the sum of the amounts recorded on its key
\* (0 when none was), whatever the interleaving of the tasks' record_usage calls,
\* and a record_usage call returns the total that includes its own amount.
C6_CounterAdditivity ==
    /\ ~snapped =>
         \A id \in Projects, pt \in PeriodTypes :
            get_current(counters, today, "project", id, pt)
               = Val(recorded, CurrentKey("project", id, pt, today))
    /\ (hOp = "record" /\ ~snapped) => hRet = Val(recorded, hKey)
    /\ (hOp = "get" /\ ~snapped) => hRet = Val(recorded, hKey)

\* C6 witness: two tasks have recorded 1 and 2 on the same key, the second call
\* returned 3
C6_Witness ==
    /\ ~snapped
    /\ hOp = "record"
    /\ nRec = 2
    /\ hRet = 3
    /\ Val(recorded, hKey) = 3

\* C7 (snapshot_and_reset and restore are inverses): restore_deltas called on the
\* Vec a snapshot_and_reset just returned leaves every key at the value it had
\* before the snapshot.
C7_SnapshotRestoreInverse ==
    [][(hOp = "snapshot" /\ hOp' = "restore")
          => \A k \in DOMAIN snapPre : Val(counters', k) = snapPre[k]]_vars

\* C8 (snapshot_and_reset): right after a snapshot every counter is 0 and the
\* returned Vec holds exactly the counters whose value was non-zero, each with
\* the value it held.
C8_SnapshotEmitsNonZero ==
    hOp = "snapshot" =>
        /\ \A k \in DOMAIN counters : counters[k] = 0
        /\ DOMAIN hDeltas = {k \in DOMAIN snapPre : snapPre[k] # 0}
        /\ \A k \in DOMAIN hDeltas : hDeltas[k] = snapPre[k]

\* ----------------------------------------------------------------- pricing

\* PricingRegistry.prices as loaded: model -> prices in cost units per token
\* ("gpt": 1 cent per input token, 1/SubMicro micro-cent per output token)
Registry ==
    [m \in {"gpt"} |-> [input_price_per_token |-> MicroPerCent * SubMicro,
                        output_price_per_token |-> 1]]

\* a faulty variant of calculate_cost: a model without pricing costs its tokens
calculate_cost_tokens(model, input_tokens, output_tokens) ==
    IF model \in DOMAIN Registry
    THEN input_tokens * Registry[model].input_price_per_token
           + output_tokens * Registry[model].output_price_per_token
    ELSE (input_tokens + output_tokens) * SubMicro

\* PricingRegistry::calculate_cost, in cost units
calculate_cost(model, input_tokens, output_tokens) ==
    IF model \in DOMAIN Registry
    THEN input_tokens * Registry[model].input_price_per_token
           + output_tokens * Registry[model].output_price_per_token
    ELSE 0

\* (cost * 10_000.0) as i64: the cast truncates toward zero
to_micro_cents(cost) ==
    IF cost >= 0 THEN cost \div SubMicro ELSE -((-cost) \div SubMicro)

\* ---------------------------------------------------- POST /usage/record

\* the request bodies the data plane sends
RequestBodies ==
    { [user_id |-> NoUser, project_id |-> "p1", model |-> "gpt",
       input_tokens |-> 1, output_tokens |-> 0, firewall_mode |-> FALSE],
      [user_id |-> "u1", project_id |-> "p1", model |-> "gpt",
       input_tokens |-> -1, output_tokens |-> 1, firewall_mode |-> FALSE],
      [user_id |-> NoUser, project_id |-> "p1", model |-> "other",
       input_tokens |-> 1, output_tokens |-> 1, firewall_mode |-> TRUE] }

\* the one body of the delivery runs (flush_loop never reads an event)
DeliveryBodies ==
    { [user_id |-> NoUser, project_id |-> "p1", model |-> "gpt",
       input_tokens |-> 1, output_tokens |-> 0, firewall_mode |-> FALSE] }

\* the one body of the admission runs: it records on the user and the project
AuthBodies ==
    { [user_id |-> "u1", project_id |-> "p1", model |-> "gpt",
       input_tokens |-> 1, output_tokens |-> 0, firewall_mode |-> FALSE] }

UsageEvent(body, request_id, cost_cents, is_priced) ==
    [request_id |-> request_id, user_id |-> body.user_id,
     project_id |-> body.project_id, model |-> body.model,
     input_tokens |-> body.input_tokens, output_tokens |-> body.output_tokens,
     cost_cents |-> cost_cents, is_priced |-> is_priced]

\* a faulty variant of RecordTargets: the user's counters are left out
RecordTargets_project(body) ==
    << <<"project", body.project_id, "daily">>, <<"project", body.project_id, "monthly">> >>

\* the keys a managed-mode request records on, in the order of the calls
RecordTargets(body) ==
    (IF body.user_id # NoUser
     THEN << <<"user", body.user_id, "daily">>, <<"user", body.user_id, "monthly">> >>
     ELSE << >>)
    \o << <<"project", body.project_id, "daily">>,
          <<"project", body.project_id, "monthly">> >>

RECURSIVE RecordAll(_, _, _, _)
RecordAll(c, date, targets, micro_cents) ==
    IF targets = << >> THEN c
    ELSE LET t == Head(targets)
         IN  RecordAll(record_usage(c, date, t[1], t[2], t[3], micro_cents),
                       date, Tail(targets), micro_cents)

RECURSIVE TallyAll(_, _, _, _)
TallyAll(h, date, targets, micro_cents) ==
    IF targets = << >> THEN h
    ELSE LET t == Head(targets)
         IN  TallyAll(Tally(h, CurrentKey(t[1], t[2], t[3], date), micro_cents),
                      date, Tail(targets), micro_cents)

\* serde_json::from_slice::<UsageRecordRequest>: project_id and user_id are UUIDs
BadUuid == "not-a-uuid"
from_slice_ok(body) == body.project_id # BadUuid /\ body.user_id # BadUuid

\* handle_usage_record up to the send: parse, price, record on the counters, build
\* the event; the response is the one written once the send has returned
HandleUsageRecord(bodies) ==
    /\ nReq < MaxReq
    /\ ~closed
    /\ \E body \in bodies :
        LET cost == IF body.firewall_mode THEN 0
                    ELSE calculate_cost(body.model, body.input_tokens, body.output_tokens)
            micro == to_micro_cents(cost)
        IN  /\ ureq' = body
            /\ IF ~ from_slice_ok(body)
               THEN /\ uresp' = [status |-> 400, cost_cents |-> 0]
                    /\ UNCHANGED <<counters, recorded, sending>>
               ELSE /\ counters' = IF body.firewall_mode THEN counters
                                   ELSE RecordAll(counters, today, RecordTargets(body), micro)
                    /\ recorded' = IF body.firewall_mode THEN recorded
                                   ELSE TallyAll(recorded, today, RecordTargets(body), micro)
                    /\ sending' = sending \cup
                                    {UsageEvent(body, nReq + 1, cost, ~body.firewall_mode)}
                    /\ uresp' = [status |-> 200, cost_cents |-> cost]
    /\ nReq' = nReq + 1
    /\ UNCHANGED <<authVars, bgVars, today, harnessVars, closed, chan, flusherVars, storeVars, snapPre,
                   snapped>>

UsageRecord == HandleUsageRecord(RequestBodies)

UsageRecordD == HandleUsageRecord(DeliveryBodies)

\* usage_tx.send(event).await completes once the bounded channel has room
Enqueue ==
    /\ \E e \in sending :
        /\ Len(chan) < ChanCap
        /\ chan' = Append(chan, e)
        /\ sending' = sending \ {e}
    /\ UNCHANGED <<authVars, bgVars, counters, today, harnessVars, nReq, closed, ureq, uresp,
                   flusherVars, storeVars, histVars>>

\* ------------------------------------------------------------- the store

\* one execute of the upsert statement:
\* ON CONFLICT DO UPDATE SET spent = spending_counters.spent + EXCLUDED.spent
\* a faulty variant of upsert_row: DO UPDATE SET spent = EXCLUDED.spent
upsert_row_replace(d, key, val) ==
    [x \in (DOMAIN d) \cup {key} |-> IF x = key THEN val ELSE d[x]]

upsert_row(d, key, val) ==
    [x \in (DOMAIN d) \cup {key} |->
        IF x = key THEN (IF x \in DOMAIN d THEN d[x] + val ELSE val) ELSE d[x]]

\* upsert_spending_counters: one execute per record, in the order of the slice
RECURSIVE upsert_spending_counters(_, _)
upsert_spending_counters(d, recs) ==
    IF recs = << >> THEN d
    ELSE upsert_spending_counters(upsert_row(d, Head(recs).key, Head(recs).val),
                                  Tail(recs))

\* a faulty variant of insert_usage: the loop runs over the events last to first
insert_usage_reversed(log, events) ==
    log \o [i \in 1..Len(events) |-> events[Len(events) + 1 - i]]

\* the INSERT INTO usage_log loop of flush_batch over events
insert_usage(log, events) == log \o events

\* the orders in which a map's entries can be iterated
RECURSIVE Perms(_)
Perms(S) ==
    IF S = {} THEN { << >> }
    ELSE UNION { { <<x>> \o p : p \in Perms(S \ {x}) } : x \in S }

\* counter_records of flush_batch / flush_counters for one iteration order
CounterRecords(ds, order) == [i \in 1..Len(order) |-> [key |-> order[i], val |-> ds[order[i]]]]

\* ------------------------------------------------------------ flush_loop

\* a faulty variant of readd_events: the batch of a failed flush is not pushed back
readd_events_none(pend, evs) == pend

\* for event in batch { pending_events.push(event) }
readd_events(pend, evs) == pend \o evs

\* a faulty variant of after_tick: an Err ends the worker's task
after_tick_propagate(res) == IF res = "err" THEN "stopped" ELSE "idle"

\* a worker's loop after a tick returned res: Ok and Err are logged and the
\* loop goes on to its next tick
after_tick(res) == "idle"

\* the tick arm when nothing is pending and no counter is positive: the
\* snapshot still swaps every counter with 0, then `continue`
TickIdle ==
    /\ fpc = "idle"
    /\ pending \o chan = << >>
    /\ snapshot_deltas(counters) = EmptyMap
    /\ counters' = snapshot_reset(counters)
    /\ snapPre' = counters
    /\ snapped' = TRUE
    /\ UNCHANGED <<authVars, bgVars, today, harnessVars, handlerVars, chan, flusherVars, storeVars, recorded>>

\* the tick arm when nothing is pending: flush_counters(deltas)
TickCounters ==
    /\ fpc = "idle"
    /\ pending \o chan = << >>
    /\ snapshot_deltas(counters) # EmptyMap
    /\ deltas' = snapshot_deltas(counters)
    /\ counters' = snapshot_reset(counters)
    /\ snapPre' = counters
    /\ snapped' = TRUE
    /\ fpc' = "flushing"
    /\ fpath' = "counters"
    /\ UNCHANGED <<authVars, bgVars, today, harnessVars, handlerVars, chan, pending, batch, fres,
                   storeVars, recorded>>

\* the tick arm with events: drain the channel, flush_batch(batch, deltas)
TickBatch ==
    /\ fpc = "idle"
    /\ pending \o chan # << >>
    /\ batch' = pending \o chan
    /\ pending' = << >>
    /\ chan' = << >>
    /\ deltas' = snapshot_deltas(counters)
    /\ counters' = snapshot_reset(counters)
    /\ snapPre' = counters
    /\ snapped' = TRUE
    /\ fpc' = "flushing"
    /\ fpath' = "tick"
    /\ UNCHANGED <<authVars, bgVars, today, harnessVars, handlerVars, fres, storeVars, recorded>>

\* a faulty variant of at_threshold: the batch must exceed the threshold
at_threshold_above(len) == len > BatchThreshold

\* pending_events.len() >= 1000
at_threshold(len) == len >= BatchThreshold

\* the recv arm below the size threshold
Recv ==
    /\ fpc = "idle"
    /\ chan # << >>
    /\ ~at_threshold(Len(pending) + 1)
    /\ pending' = Append(pending, Head(chan))
    /\ chan' = Tail(chan)
    /\ UNCHANGED <<authVars, bgVars, counters, today, harnessVars, handlerVars, fpc, fpath, batch,
                   deltas, fres, storeVars, histVars>>

\* the recv arm at the size threshold: flush_batch(batch, deltas) at once
RecvFlush ==
    /\ fpc = "idle"
    /\ chan # << >>
    /\ at_threshold(Len(pending) + 1)
    /\ batch' = Append(pending, Head(chan))
    /\ pending' = << >>
    /\ chan' = Tail(chan)
    /\ deltas' = snapshot_deltas(counters)
    /\ counters' = snapshot_reset(counters)
    /\ snapPre' = counters
    /\ snapped' = TRUE
    /\ fpc' = "flushing"
    /\ fpath' = "size"
    /\ UNCHANGED <<authVars, bgVars, today, harnessVars, handlerVars, fres, storeVars, recorded>>

\* flush_batch / flush_counters returns Ok: every statement was executed
FlushOk ==
    /\ fpc = "flushing"
    /\ \E order \in Perms(DOMAIN deltas) :
        /\ usage_log' = insert_usage(usage_log, batch)
        /\ durable' = upsert_spending_counters(durable, CounterRecords(deltas, order))
    /\ fres' = "ok"
    /\ fpc' = "idle"
    /\ batch' = << >>
    /\ deltas' = EmptyMap
    /\ UNCHANGED <<authVars, bgVars, counters, today, harnessVars, handlerVars, chan, pending, fpath,
                   nFail, histVars>>

\* flush_batch / flush_counters returns Err: the statements run without a
\* transaction, so those executed before the failing one stay applied (k rows
\* inserted, then j counters upserted); the arm restores the deltas and
\* pushes the batch back
FlushFail ==
    /\ fpc = "flushing"
    /\ nFail < MaxFail
    /\ \E order \in Perms(DOMAIN deltas), k \in 0..Len(batch),
          j \in 0..Cardinality(DOMAIN deltas) :
        /\ \/ k < Len(batch) /\ j = 0
           \/ k = Len(batch) /\ j < Len(order)
        /\ usage_log' = insert_usage(usage_log, SubSeq(batch, 1, k))
        /\ durable' = upsert_spending_counters(
                          durable, SubSeq(CounterRecords(deltas, order), 1, j))
    /\ counters' = restore_deltas(counters, deltas)
    /\ pending' = IF fpath = "counters" THEN pending ELSE readd_events(pending, batch)
    /\ nFail' = nFail + 1
    /\ fres' = "err"
    /\ fpc' = after_tick("err")
    /\ batch' = << >>
    /\ deltas' = EmptyMap
    /\ UNCHANGED <<authVars, bgVars, today, harnessVars, handlerVars, chan, fpath, histVars>>

NextBilling ==
    \/ UsageRecord \/ Enqueue
    \/ TickIdle \/ TickCounters \/ TickBatch \/ Recv \/ RecvFlush
    \/ FlushOk \/ FlushFail

SpecBilling == Init /\ [][NextBilling]_vars

\* the same pipeline fed with DeliveryBodies
NextDelivery ==
    \/ UsageRecordD \/ Enqueue
    \/ TickIdle \/ TickCounters \/ TickBatch \/ Recv \/ RecvFlush
    \/ FlushOk \/ FlushFail

SpecDelivery == Init /\ [][NextDelivery]_vars

\* the scheduling the runtime and the claim's proviso give: the interval timer
\* fires, and the store accepts a flush again and again
FairDelivery ==
    /\ SpecDelivery
    /\ WF_vars(TickBatch)
    /\ SF_vars(FlushOk)

\* ------------------------------------------------------- channel close

\* the last Sender is dropped: no handler holds one any more
CloseChannel ==
    /\ ~closed
    /\ sending = {}
    /\ closed' = TRUE
    /\ UNCHANGED <<authVars, bgVars, counters, today, harnessVars, nReq, sending, ureq, uresp, chan,
                   flusherVars, storeVars, histVars>>

\* the branches of flush_loop's select!. `_ = interval.tick()`: the pattern
\* matches every completion, so the branch is never disabled.
TickBranch == TRUE

\* `Some(event) = rx.recv()`: disabled once recv() yields None, that is when
\* the channel is closed and empty
RecvBranch == ~(closed /\ chan = << >>)

\* `else`: runs only when every branch is disabled
ElseBranch == ~TickBranch /\ ~RecvBranch

\* the else arm: flush what is pending, ignoring the result, and break. Its
\* guard ElseBranch is unsatisfiable, so it is no disjunct of a next-state
\* relation.
ChannelClosedArm ==
    /\ fpc = "idle"
    /\ ElseBranch
    /\ fpc' = "stopped"
    /\ pending' = << >>
    /\ \E k \in 0..Len(pending) : usage_log' = usage_log \o SubSeq(pending, 1, k)
    /\ UNCHANGED <<authVars, bgVars, today, harnessVars, handlerVars, chan, fpath, batch, deltas, fres,
                   durable, nFail, histVars, counters>>

\* the delivery pipeline whose producers may all go away
NextShutdown ==
    \/ UsageRecordD \/ Enqueue \/ CloseChannel
    \/ TickIdle \/ TickCounters \/ TickBatch \/ Recv \/ RecvFlush
    \/ FlushOk \/ FlushFail

SpecShutdown == Init /\ [][NextShutdown]_vars

FairShutdown ==
    /\ SpecShutdown
    /\ WF_vars(TickIdle \/ TickCounters \/ TickBatch)
    /\ WF_vars(Recv \/ RecvFlush)
    /\ SF_vars(FlushOk)

\* C11 (termination on channel close): once every sender is dropped, the
\* flusher eventually leaves its loop.
C11_StopsOnClose == closed ~> fpc = "stopped"

\* ------------------------------------------------- claims on the pipeline

Accepted(id) == \E i \in 1..Len(chan) : chan[i].request_id = id
Logged(id) == \E i \in 1..Len(usage_log) : usage_log[i].request_id = id

\* the step in which a flush returns
FlushReturns == fpc = "flushing" /\ fpc' = "idle"

\* C1 (budget monotonicity): whenever the amounts recorded for a project in
\* the current period sum to at least a limit, check_budget on that project,
\* period and limit rejects (stated for the moments the flusher is not in a flush).
C1_BudgetMonotonic ==
    fpc = "idle" =>
        \A id \in Projects, pt \in PeriodTypes, cents \in 1..MaxLimitCents :
            Val(recorded, CurrentKey("project", id, pt, today)) >= cents * MicroPerCent
                => ~check_budget(counters, today, "project", id, pt, cents * MicroPerCent)

\* C3 (at-least-once delivery): every event the channel has accepted is
\* eventually a row of usage_log, whatever flushes fail in between, provided the
\* store accepts a flush again and again.
C3_AtLeastOnce == \A id \in 1..MaxReq : Accepted(id) ~> Logged(id)

\* C3 witness: an event was part of a failed flush that had inserted it, was
\* pushed back and inserted again by a flush that succeeded
C3_Witness ==
    /\ fres = "ok"
    /\ nFail > 0
    /\ \E i, j \in 1..Len(usage_log) :
        i < j /\ usage_log[i].request_id = usage_log[j].request_id

\* C4 (failed flush restores): when a flush returns Err, the batch is the pending
\* batch again and every counter is the value it had when the snapshot was
\* taken plus what was recorded during the flush.
C4_FailedFlushRestores ==
    [][(FlushReturns /\ fres' = "err") =>
          /\ fpath # "counters" => pending' = batch
          /\ \A k \in DOMAIN snapPre :
                Val(counters', k) = Val(counters, k) + snapPre[k]]_vars

Quiescent ==
    /\ sending = {}
    /\ chan = << >>
    /\ pending = << >>
    /\ fpc = "idle"
    /\ \A k \in DOMAIN counters : counters[k] = 0

RECURSIVE CostSum(_, _)
CostSum(log, project_id) ==
    IF log = << >> THEN 0
    ELSE (IF Head(log).project_id = project_id THEN Head(log).cost_cents ELSE 0)
           + CostSum(Tail(log), project_id)

\* C5 (usage round trip): at quiescence, when every request had a cost of a
\* whole, non-negative number of micro-cents, usage_log holds exactly one row
\* per request and the durable counter of the project and period is 10^4
\* times the sum of the costs (in cents) of the project's rows.
C5_UsageRoundTrip ==
    (/\ Quiescent
     /\ \A i \in 1..Len(usage_log) :
           usage_log[i].cost_cents >= 0 /\ usage_log[i].cost_cents % SubMicro = 0)
    =>
    /\ Len(usage_log) = nReq
    /\ \A id \in 1..nReq : Logged(id)
    /\ \A p \in Projects, pt \in PeriodTypes :
          Val(durable, CurrentKey("project", p, pt, today)) * SubMicro
             = CostSum(usage_log, p)

\* C9 (a flush is all-or-nothing): a flush that returns Err has inserted no
\* row into usage_log and added no delta to spending_counters.
C9_FlushAllOrNothing ==
    [][(FlushReturns /\ fres' = "err") =>
          (usage_log' = usage_log /\ durable' = durable)]_vars

\* C10 (additive upserts): a flush that returns Ok leaves every durable counter
\* at its previous value (0 when the row was absent) plus the delta flushed for
\* it, in whatever order the deltas are upserted; a flush that returns Err has
\* added each delta at most once; no row is ever replaced.
C10_UpsertAdditive ==
    [][FlushReturns =>
          /\ DOMAIN durable' = (DOMAIN durable) \cup
                                  {k \in DOMAIN deltas : Val(durable', k) # Val(durable, k)
                                                            \/ k \in DOMAIN durable'}
          /\ \A k \in (DOMAIN durable') \cup (DOMAIN deltas) :
                /\ fres' = "ok" => Val(durable', k) = Val(durable, k) + Val(deltas, k)
                /\ fres' = "err" => Val(durable', k) \in
                                      {Val(durable, k), Val(durable, k) + Val(deltas, k)}]_vars

\* C10 witness: a flush has returned Ok after adding a delta to a row that
\* already held a positive amount
C10_Witness ==
    /\ fres = "ok"
    /\ fpc = "idle"
    /\ \E k \in DOMAIN snapPre : snapPre[k] > 0 /\ Val(durable, k) > snapPre[k]

\* --------------------------------------------------------------- SpecAuth

\* get_spending_limits: the rows of the entity with is_active = true
get_spending_limits(lims, entity_type, entity_id) ==
    { [period_type |-> k.period_type, limit_cents |-> lims[k].limit_cents] :
        k \in {x \in DOMAIN lims : /\ x.entity_type = entity_type
                                   /\ x.entity_id = entity_id
                                   /\ lims[x].is_active} }

\* upsert_spending_limit: ON CONFLICT DO UPDATE SET limit_cents; a new row is active
upsert_spending_limit(lims, key, limit_cents) ==
    [x \in (DOMAIN lims) \cup {key} |->
        IF x = key
        THEN [limit_cents |-> limit_cents,
              is_active |-> IF key \in DOMAIN lims THEN lims[key].is_active ELSE TRUE]
        ELSE lims[x]]

\* check_budget of handlers/auth_check.rs: TRUE for Ok(()), FALSE for Err(_).
\* client_ok: pool.get_client() succeeded; user_q_ok, project_q_ok: the two
\* get_spending_limits queries succeeded (a failed one is unwrap_or_default()).
auth_check_budget(c, date, lims, user_id, project_id, client_ok, user_q_ok, project_q_ok) ==
    IF ~client_ok THEN FALSE
    ELSE LET user_limits == IF user_q_ok THEN get_spending_limits(lims, "user", user_id)
                            ELSE {}
             project_limits == IF project_q_ok
                               THEN get_spending_limits(lims, "project", project_id)
                               ELSE {}
         IN  /\ \A limit \in user_limits :
                   check_budget(c, date, "user", user_id, limit.period_type,
                                limit.limit_cents * MicroPerCent)
             /\ \A limit \in project_limits :
                   check_budget(c, date, "project", project_id, limit.period_type,
                                limit.limit_cents * MicroPerCent)

\* the auth context every valid token of the model resolves to
AuthCtx == [user_id |-> "u1", project_id |-> "p1"]

\* the headers of an admitted request
XproxyHeaders ==
    {"x-xproxy-provider-hint", "x-xproxy-api-key", "x-xproxy-model", "x-xproxy-user-id",
     "x-xproxy-project-id", "x-xproxy-pipe-id"}

\* error_response / json_response: the status, the JSON body and a content-type
error_response(status, message) ==
    [status |-> status, error |-> message, headers |-> {"content-type"}]

\* handle_auth_check in managed mode. bearer: the Authorization header has the
\* Bearer prefix; resolved: the outcome of get_or_resolve; has_model: the body
\* has a model; pipe_found: select_pipe returned a pipe.
handle_auth_check(c, date, lims, bearer, resolved, has_model, pipe_found, client_ok, user_q_ok, project_q_ok) ==
    IF ~bearer THEN error_response(401, "missing bearer token")
    ELSE IF resolved = "invalid" THEN error_response(401, "invalid or expired token")
    ELSE IF resolved = "error" THEN error_response(500, "auth error")
    ELSE IF ~has_model THEN error_response(400, "model field required in request body")
    ELSE IF ~pipe_found THEN error_response(403, "no pipe found")
    ELSE IF ~auth_check_budget(c, date, lims, AuthCtx.user_id, AuthCtx.project_id,
                               client_ok, user_q_ok, project_q_ok)
         THEN error_response(429, "spending_limit_exceeded")
    ELSE [status |-> 200, error |-> "", headers |-> XproxyHeaders]

InitAuth ==
    /\ InitProcess
    /\ limits \in LimitTables
    /\ usage_log = << >>
    /\ durable = EmptyMap
    /\ custom = EmptyMap
    /\ tok = ValidToken
    /\ keys = EmptyMap
    /\ turns = EmptyMap

\* POST /auth/check without the x-xproxy-mode: firewall header
AuthCheck ==
    /\ resp = NoResp
    /\ \E bearer, has_model, pipe_found, client_ok, user_q_ok, project_q_ok \in BOOLEAN,
          resolved \in {"ok", "invalid", "error"} :
          /\ resp' = handle_auth_check(counters, today, limits, bearer, resolved, has_model,
                                       pipe_found, client_ok, user_q_ok, project_q_ok)
          /\ areq' = [bearer |-> bearer, resolved |-> resolved, has_model |-> has_model,
                      pipe_found |-> pipe_found, client_ok |-> client_ok,
                      user_q_ok |-> user_q_ok, project_q_ok |-> project_q_ok]
    /\ UNCHANGED <<bgVars, counters, today, harnessVars, handlerVars, chan, flusherVars, storeVars,
                   histVars, limits>>

\* the response has been returned to the caller
Respond ==
    /\ resp # NoResp
    /\ resp' = NoResp
    /\ areq' = NoReq
    /\ UNCHANGED <<bgVars, counters, today, harnessVars, handlerVars, chan, flusherVars, storeVars,
                   histVars, limits>>

\* the management API sets a spending limit
SetLimit ==
    /\ \E key \in LimitKeys, limit_cents \in 1..MaxLimitCents :
          limits' = upsert_spending_limit(limits, key, limit_cents)
    /\ UNCHANGED <<bgVars, counters, today, harnessVars, handlerVars, chan, flusherVars, storeVars,
                   histVars, resp, areq>>

UsageRecordA == HandleUsageRecord(AuthBodies)

NextAuth == UsageRecordA \/ SetLimit \/ AuthCheck \/ Respond

SpecAuth == InitAuth /\ [][NextAuth]_vars

\* every active limit of the token's user and project is satisfied by the
\* in-memory counter of its current period
WithinAllLimits ==
    \A k \in DOMAIN limits :
        (/\ limits[k].is_active
         /\ \/ k.entity_type = "user" /\ k.entity_id = AuthCtx.user_id
            \/ k.entity_type = "project" /\ k.entity_id = AuthCtx.project_id)
        => LET key == CurrentKey(k.entity_type, k.entity_id, k.period_type, today)
           IN  key \notin DOMAIN counters
                  \/ counters[key] < limits[k].limit_cents * MicroPerCent

\* C2 (admission respects the limits): a managed /auth/check answers 200 only
\* if every active limit of the token's user and project is satisfied by the
\* in-memory counters, and a request that reaches the budget step with a limit
\* not satisfied is answered 429 spending_limit_exceeded.
C2_AdmitOnlyWithinLimits ==
    [][(resp = NoResp /\ resp' # NoResp) =>
          /\ resp'.status = 200 => WithinAllLimits
          /\ (resp'.status \in {200, 429} /\ ~WithinAllLimits) =>
                resp' = error_response(429, "spending_limit_exceeded")]_vars

\* the status the order of outcomes prescribes for a request r in the current
\* state; a resolution that failed on the store is answered 500
ExpectedStatus(r) ==
    IF ~r.bearer \/ r.resolved = "invalid" THEN 401
    ELSE IF r.resolved = "error" THEN 500
    ELSE IF ~r.has_model THEN 400
    ELSE IF ~r.pipe_found THEN 403
    ELSE IF ~WithinAllLimits THEN 429
    ELSE 200

\* C17 (order of outcomes): a managed /auth/check returns the first applicable
\* of 401 (no Bearer token, or the token does not resolve), 400 (no model),
\* 403 (no pipe), 429 (a limit is exceeded), and otherwise 200 with the six
\* x-xproxy-* headers; a response other than 200 carries none of them.
C17_OutcomeOrder ==
    [][(resp = NoResp /\ resp' # NoResp) =>
          /\ resp'.status = ExpectedStatus(areq')
          /\ resp'.status = 200 => XproxyHeaders \subseteq resp'.headers
          /\ resp'.status # 200 => resp'.headers \cap XproxyHeaders = {}]_vars

\* the request r reached the store and the store failed: while resolving the
\* token, or in check_budget while obtaining the connection or reading the
\* limits of the user or (if the user's limits did not reject) of the project
StoreFailed(r) ==
    /\ r.bearer
    /\ \/ r.resolved = "error"
       \/ /\ r.resolved = "ok" /\ r.has_model /\ r.pipe_found
          /\ \/ ~r.client_ok
             \/ ~r.user_q_ok
             \/ /\ ~r.project_q_ok
                /\ auth_check_budget(counters, today, limits, AuthCtx.user_id,
                                     AuthCtx.project_id, TRUE, TRUE, FALSE)

\* C18 (store unavailability is 500): a managed /auth/check that cannot reach
\* the store while resolving the token or reading the spending limits is
\* answered 500, never 429 and never 200.
C18_StoreFailureIs500 ==
    [][(resp = NoResp /\ resp' # NoResp /\ StoreFailed(areq')) => resp'.status = 500]_vars

\* ------------------------------------------------------- price calculator

\* project_id IS NULL in custom_model_pricing
GlobalPricing == "global"

NoPricingRow == [input_price_per_million |-> -1, output_price_per_million |-> -1]

\* the custom prices of the model, in cents per million tokens
ProjectCustom == [input_price_per_million |-> 2 * PerMillion, output_price_per_million |-> 0]
GlobalCustom == [input_price_per_million |-> 3 * PerMillion, output_price_per_million |-> 0]

\* the contents custom_model_pricing may have
CustomTables ==
    { [k \in {x \in {[project_id |-> "p1", model |-> "gpt"],
                     [project_id |-> GlobalPricing, model |-> "gpt"]} : x.project_id \in on}
         |-> IF k.project_id = GlobalPricing THEN GlobalCustom ELSE ProjectCustom] :
        on \in SUBSET {"p1", GlobalPricing} }

\* get_custom_pricing: the project's row first, then the global row
get_custom_pricing(tbl, project_id, model) ==
    IF [project_id |-> project_id, model |-> model] \in DOMAIN tbl
    THEN tbl[[project_id |-> project_id, model |-> model]]
    ELSE IF [project_id |-> GlobalPricing, model |-> model] \in DOMAIN tbl
    THEN tbl[[project_id |-> GlobalPricing, model |-> model]]
    ELSE NoPricingRow

\* price_per_million / 1_000_000.0, in cost units per token (the custom prices
\* of the model are whole cents per token)
PerToken(price_per_million) == (price_per_million \div PerMillion) * MicroPerCent * SubMicro

\* calculate_cost_with_custom. lookup_ok: pool.get_client() and
\* get_custom_pricing both returned Ok.
calculate_cost_with_custom(tbl, project_id, model, input_tokens, output_tokens, lookup_ok) ==
    LET cp == get_custom_pricing(tbl, project_id, model)
    IN  IF lookup_ok /\ cp # NoPricingRow
        THEN input_tokens * PerToken(cp.input_price_per_million)
               + output_tokens * PerToken(cp.output_price_per_million)
        ELSE calculate_cost(model, input_tokens, output_tokens)

\* a faulty variant of get_unpriced_usage: no WHERE is_priced = false
get_unpriced_usage_all(log, limit) ==
    SubSeq([i \in 1..Len(log) |-> i], 1, IF Len(log) < limit THEN Len(log) ELSE limit)

\* get_unpriced_usage: the ids (positions) of the rows with is_priced = false,
\* oldest first, at most `limit` of them
get_unpriced_usage(log, limit) ==
    LET ids == SelectSeq([i \in 1..Len(log) |-> i], LAMBDA i : ~log[i].is_priced)
    IN  SubSeq(ids, 1, IF Len(ids) < limit THEN Len(ids) ELSE limit)

\* UPDATE usage_log SET cost_cents = $1, is_priced = true WHERE id = $2
mark_row(row, cost_cents) == [row EXCEPT !.cost_cents = cost_cents, !.is_priced = TRUE]

\* mark_usage_priced, its first k statements executed
mark_usage_priced(log, updates, k) ==
    [i \in 1..Len(log) |->
        IF \E j \in 1..k : updates[j].id = i
        THEN mark_row(log[i], (CHOOSE u \in {updates[j] : j \in 1..k} : u.id = i).cost_cents)
        ELSE log[i]]

ProjectTargets(project_id) ==
    << <<"project", project_id, "daily">>, <<"project", project_id, "monthly">> >>

\* the updates price_batch computes for the rows ids, oks[i] telling whether
\* the custom lookup of the i-th row succeeded
PriceUpdates(tbl, log, ids, oks) ==
    [i \in 1..Len(ids) |->
        [id |-> ids[i],
         cost_cents |-> calculate_cost_with_custom(tbl, log[ids[i]].project_id,
                            log[ids[i]].model, log[ids[i]].input_tokens,
                            log[ids[i]].output_tokens, oks[i])]]

\* price_batch's record_usage calls: only for cost_micro_cents > 0
RECURSIVE PriceRecord(_, _, _, _)
PriceRecord(c, date, log, updates) ==
    IF updates = << >> THEN c
    ELSE LET u == Head(updates)
             micro == to_micro_cents(u.cost_cents)
         IN  PriceRecord(IF micro > 0
                         THEN RecordAll(c, date, ProjectTargets(log[u.id].project_id), micro)
                         ELSE c,
                         date, log, Tail(updates))

RECURSIVE PriceTally(_, _, _, _)
PriceTally(h, date, log, updates) ==
    IF updates = << >> THEN h
    ELSE LET u == Head(updates)
             micro == to_micro_cents(u.cost_cents)
         IN  PriceTally(IF micro > 0
                        THEN TallyAll(h, date, ProjectTargets(log[u.id].project_id), micro)
                        ELSE h,
                        date, log, Tail(updates))

\* the usage_log rows a previous run of the gateway may have left
StoredRows ==
    { UsageEvent([user_id |-> NoUser, project_id |-> "p1", model |-> "gpt",
                  input_tokens |-> 1, output_tokens |-> 0], 0, 0, FALSE),
      UsageEvent([user_id |-> NoUser, project_id |-> "p1", model |-> "other",
                  input_tokens |-> 1, output_tokens |-> 1], 0, 0, FALSE),
      UsageEvent([user_id |-> NoUser, project_id |-> "p1", model |-> "gpt",
                  input_tokens |-> 1, output_tokens |-> 0], 0,
                 calculate_cost("gpt", 1, 0), TRUE) }

LogTables == UNION { [1..n -> StoredRows] : n \in 0..MaxRows }

\* a managed request for a model without pricing
PricingBodies ==
    { [user_id |-> NoUser, project_id |-> "p1", model |-> "other",
       input_tokens |-> 1, output_tokens |-> 1, firewall_mode |-> FALSE] }

\* managed requests for a model with pricing and for one without
ChainBodies ==
    { [user_id |-> NoUser, project_id |-> "p1", model |-> "gpt",
       input_tokens |-> 1, output_tokens |-> 0, firewall_mode |-> FALSE],
      [user_id |-> NoUser, project_id |-> "p1", model |-> "other",
       input_tokens |-> 1, output_tokens |-> 1, firewall_mode |-> FALSE] }

\* the response of handle_usage_record once the body has parsed
usage_record_response(cost_cents) == [status |-> 200, cost_cents |-> cost_cents]

InitPricing ==
    /\ InitProcess
    /\ limits = EmptyMap
    /\ usage_log \in LogTables
    /\ durable = EmptyMap
    /\ custom \in CustomTables
    /\ tok = ValidToken
    /\ keys = EmptyMap
    /\ turns = EmptyMap

\* price_batch up to mark_usage_priced: select the unpriced rows, price each,
\* add its cost to the project's counters. (With no unpriced row the run
\* returns Ok(0) and changes nothing.)
PriceSelect ==
    /\ ppc = "idle"
    /\ LET ids == get_unpriced_usage(usage_log, PriceBatchLimit)
       IN  /\ ids # << >>
           /\ \E oks \in [1..Len(ids) -> BOOLEAN] :
                LET updates == PriceUpdates(custom, usage_log, ids, oks)
                IN  /\ pUpdates' = updates
                    /\ counters' = PriceRecord(counters, today, usage_log, updates)
                    /\ recorded' = PriceTally(recorded, today, usage_log, updates)
    /\ ppc' = "marking"
    /\ UNCHANGED <<authVars, budgetVars, cacheVars, extVars, restVars, today, harnessVars, handlerVars, chan, flusherVars, storeVars,
                   snapPre, snapped, custom, nPriceFail, marks>>

\* price_batch returns Err before pricing anything: pool.get_client() or
\* get_unpriced_usage failed
PriceErr ==
    /\ ppc = "idle"
    /\ nPriceFail < MaxPriceFail
    /\ nPriceFail' = nPriceFail + 1
    /\ ppc' = after_tick("err")
    /\ UNCHANGED <<authVars, budgetVars, cacheVars, extVars, restVars, counters, today, harnessVars, handlerVars, chan, flusherVars,
                   storeVars, histVars, custom, pUpdates, marks>>

\* mark_usage_priced: one UPDATE per row, each committed on its own; the run
\* returns Ok after all of them, Err when the statement after the k-th fails
PriceMark ==
    /\ ppc = "marking"
    /\ \E k \in 0..Len(pUpdates) :
        /\ k < Len(pUpdates) => nPriceFail < MaxPriceFail
        /\ nPriceFail' = IF k < Len(pUpdates) THEN nPriceFail + 1 ELSE nPriceFail
        /\ usage_log' = mark_usage_priced(usage_log, pUpdates, k)
        /\ marks' = [i \in (DOMAIN marks) \cup {pUpdates[j].id : j \in 1..k} |->
                        Val(marks, i) + Cardinality({j \in 1..k : pUpdates[j].id = i})]
        /\ ppc' = after_tick(IF k < Len(pUpdates) THEN "err" ELSE "ok")
    /\ pUpdates' = << >>
    /\ UNCHANGED <<authVars, budgetVars, cacheVars, extVars, restVars, counters, today, harnessVars, handlerVars, chan, flusherVars,
                   durable, nFail, histVars, custom>>

UsageRecordP == HandleUsageRecord(PricingBodies)

NextPricing == UsageRecordP \/ Enqueue \/ PriceSelect \/ PriceErr \/ PriceMark

SpecPricing == InitPricing /\ [][NextPricing]_vars

UsageRecordC == HandleUsageRecord(ChainBodies)

\* the calculator beside hot-path requests for priced and unpriced models
NextChain == UsageRecordC \/ Enqueue \/ PriceSelect \/ PriceErr \/ PriceMark

SpecChain == InitPricing /\ [][NextChain]_vars

\* the step in which mark_usage_priced ends
MarkReturns == ppc = "marking" /\ ppc' = "idle"

\* C12 (is_priced goes from false to true once): a priced row is never
\* written again (so is_priced never goes back and a priced row is never
\* re-priced), the rows a run is about to mark are unpriced, no row is marked
\* by more than one UPDATE, and a run that returns Ok leaves all its rows priced.
C12_PricedOnce ==
    [][/\ Len(usage_log') >= Len(usage_log)
       /\ \A i \in 1..Len(usage_log) :
             usage_log[i].is_priced => usage_log'[i] = usage_log[i]
       /\ \A j \in 1..Len(pUpdates') : ~usage_log'[pUpdates'[j].id].is_priced
       /\ \A i \in DOMAIN marks' : marks'[i] <= 1
       /\ (MarkReturns /\ nPriceFail' = nPriceFail) =>
             \A j \in 1..Len(pUpdates) :
                /\ ~usage_log[pUpdates[j].id].is_priced
                /\ usage_log'[pUpdates[j].id].is_priced]_vars

\* C12 witness: a row was left unpriced by a run that failed and priced by a
\* later run
C12_Witness ==
    /\ ppc = "idle"
    /\ nPriceFail > 0
    /\ \E i \in 1..Len(usage_log) : usage_log[i].is_priced /\ Val(marks, i) = 1
    /\ \A i \in 1..Len(usage_log) : usage_log[i].is_priced

\* the price the chain prescribes: project custom, else global custom, else
\* registry, else zero
ChainCost(project_id, model, input_tokens, output_tokens) ==
    IF [project_id |-> project_id, model |-> model] \in DOMAIN custom
    THEN input_tokens * PerToken(custom[[project_id |-> project_id, model |-> model]].input_price_per_million)
           + output_tokens * PerToken(custom[[project_id |-> project_id, model |-> model]].output_price_per_million)
    ELSE IF [project_id |-> GlobalPricing, model |-> model] \in DOMAIN custom
    THEN input_tokens * PerToken(custom[[project_id |-> GlobalPricing, model |-> model]].input_price_per_million)
           + output_tokens * PerToken(custom[[project_id |-> GlobalPricing, model |-> model]].output_price_per_million)
    ELSE IF model \in DOMAIN Registry
    THEN input_tokens * Registry[model].input_price_per_token
           + output_tokens * Registry[model].output_price_per_token
    ELSE 0

\* C13 (pricing chain): the cost of every event priced on the hot path and of
\* every update computed by the price calculator is the chain's cost.
C13_PricingChain ==
    /\ \A e \in sending :
          e.is_priced => e.cost_cents = ChainCost(e.project_id, e.model, e.input_tokens,
                                                  e.output_tokens)
    /\ \A j \in 1..Len(pUpdates) :
          LET row == usage_log[pUpdates[j].id]
          IN  pUpdates[j].cost_cents = ChainCost(row.project_id, row.model, row.input_tokens,
                                                 row.output_tokens)

\* no price is defined for the model anywhere
NoPricing(project_id, model) ==
    /\ model \notin DOMAIN Registry
    /\ [project_id |-> project_id, model |-> model] \notin DOMAIN custom
    /\ [project_id |-> GlobalPricing, model |-> model] \notin DOMAIN custom

\* C14 (a pricing gap is no error): the calculator gives a row without pricing
\* the cost 0, a run that picked only such rows leaves every counter unchanged,
\* a run that returns Ok leaves such rows priced at cost 0; a managed
\* /usage/record for such a model answers 200 with cost 0 and its event, priced
\* at 0, is on its way to the channel.
C14_PricingGap ==
    [][/\ (ppc = "idle" /\ ppc' = "marking") =>
             /\ \A j \in 1..Len(pUpdates') :
                   NoPricing(usage_log[pUpdates'[j].id].project_id,
                             usage_log[pUpdates'[j].id].model)
                      => pUpdates'[j].cost_cents = 0
             /\ (\A j \in 1..Len(pUpdates') :
                    NoPricing(usage_log[pUpdates'[j].id].project_id,
                              usage_log[pUpdates'[j].id].model))
                   => counters' = counters
       /\ (MarkReturns /\ nPriceFail' = nPriceFail) =>
             \A j \in 1..Len(pUpdates) :
                NoPricing(usage_log[pUpdates[j].id].project_id, usage_log[pUpdates[j].id].model)
                   => /\ usage_log'[pUpdates[j].id].is_priced
                      /\ usage_log'[pUpdates[j].id].cost_cents = 0
       /\ nReq' = nReq + 1 =>
             /\ Cardinality(sending' \ sending) = 1
             /\ \A e \in sending' \ sending :
                   NoPricing(e.project_id, e.model) =>
                      /\ e.is_priced
                      /\ e.cost_cents = 0
                      /\ usage_record_response(e.cost_cents) = [status |-> 200, cost_cents |-> 0]
      ]_vars

\* C14 witness: a row of a model without pricing has been priced at 0 by the
\* calculator and the event of a managed request for that model is in the channel
C14_Witness ==
    /\ \E i \in 1..Len(usage_log) :
          /\ usage_log[i].model = "other"
          /\ usage_log[i].is_priced
          /\ usage_log[i].cost_cents = 0
          /\ Val(marks, i) = 1
    /\ \E i \in 1..Len(chan) :
          chan[i].model = "other" /\ chan[i].is_priced /\ chan[i].cost_cents = 0

\* --------------------------------------------------------- budget checker

BudgetProjects == {"p1", "p2"}

\* the limit rows of the budget runs: two project limits and a user limit
BudgetLimitKeys ==
    { [entity_type |-> "project", entity_id |-> "p1", period_type |-> "daily"],
      [entity_type |-> "project", entity_id |-> "p2", period_type |-> "monthly"],
      [entity_type |-> "user", entity_id |-> "u1", period_type |-> "daily"] }

\* the contents spending_limits may have
BudgetLimitTables ==
    { [k \in {x \in BudgetLimitKeys : f[x] # NoRow} |-> f[k]] :
        f \in [BudgetLimitKeys -> LimitRows \cup {NoRow}] }

\* the contents spending_counters may have: each entity has spent nothing
\* yet or one cent in the period that starts on day 0
BudgetCounterTables ==
    { [k \in {CounterKey(x.entity_type, x.entity_id, x.period_type, 0) : x \in on}
         |-> MicroPerCent] : on \in SUBSET BudgetLimitKeys }

\* get_all_active_spending_limits: the keys of the rows with is_active = true
get_all_active_spending_limits(lims) == {k \in DOMAIN lims : lims[k].is_active}

\* get_current_spending: the row of the current period, 0 when there is none
get_current_spending(dur, date, entity_type, entity_id, period_type) ==
    Val(dur, CurrentKey(entity_type, entity_id, period_type, date))

\* the loop of check_budgets. oks[k]: get_current_spending for limit k
\* returned Ok (an Err is unwrap_or(0)).
compute_newly_blocked(lims, dur, date, oks) ==
    { k.entity_id :
        k \in { x \in get_all_active_spending_limits(lims) :
                  LET spent == IF oks[x]
                               THEN get_current_spending(dur, date, x.entity_type,
                                                         x.entity_id, x.period_type)
                               ELSE 0
                      is_within_budget == spent < lims[x].limit_cents * MicroPerCent
                  IN  ~is_within_budget /\ x.entity_type = "project" } }

InitBudget ==
    /\ InitProcess
    /\ limits \in BudgetLimitTables
    /\ durable \in BudgetCounterTables
    /\ usage_log = << >>
    /\ custom = EmptyMap
    /\ tok = ValidToken
    /\ keys = EmptyMap
    /\ turns = EmptyMap

\* check_budgets up to the end of its loop: the limits and each counter read
BCRead ==
    /\ bpc = "idle"
    /\ \E oks \in [get_all_active_spending_limits(limits) -> BOOLEAN] :
          newly_blocked' = compute_newly_blocked(limits, durable, today, oks)
    /\ bpc' = "clearing"
    /\ bPrev' = blocked
    /\ UNCHANGED <<authVars, priceVars, cacheVars, extVars, restVars, counters, today, harnessVars, handlerVars, chan,
                   flusherVars, storeVars, histVars, blocked, bres, seen>>

\* check_budgets returns Err: pool.get_client() or
\* get_all_active_spending_limits failed
BCErr ==
    /\ bpc = "idle"
    /\ bres' = "err"
    /\ bpc' = after_tick("err")
    /\ UNCHANGED <<authVars, priceVars, cacheVars, extVars, restVars, counters, today, harnessVars, handlerVars, chan,
                   flusherVars, storeVars, histVars, blocked, newly_blocked, seen, bPrev>>

\* self.blocked_projects.clear()
BCClear ==
    /\ bpc = "clearing"
    /\ blocked' = {}
    /\ bpc' = IF newly_blocked = {} THEN "idle" ELSE "inserting"
    /\ bres' = IF newly_blocked = {} THEN "ok" ELSE bres
    /\ UNCHANGED <<authVars, priceVars, cacheVars, extVars, restVars, counters, today, harnessVars, handlerVars, chan,
                   flusherVars, storeVars, histVars, newly_blocked, seen, bPrev>>

\* one self.blocked_projects.insert(*id) of the loop over newly_blocked; after
\* the last one the run returns Ok
BCInsert ==
    /\ bpc = "inserting"
    /\ \E id \in newly_blocked \ blocked :
          /\ blocked' = blocked \cup {id}
          /\ bpc' = IF blocked' = newly_blocked THEN "idle" ELSE "inserting"
          /\ bres' = IF blocked' = newly_blocked THEN "ok" ELSE bres
    /\ UNCHANGED <<authVars, priceVars, cacheVars, extVars, restVars, counters, today, harnessVars, handlerVars, chan,
                   flusherVars, storeVars, histVars, newly_blocked, seen, bPrev>>

\* GET /budget/blocked: get_blocked_projects()
GetBlocked ==
    /\ seen = NoRead
    /\ seen' = [blocked |-> blocked]
    /\ UNCHANGED <<authVars, priceVars, cacheVars, extVars, restVars, counters, today, harnessVars, handlerVars, chan,
                   flusherVars, storeVars, histVars, blocked, bpc, newly_blocked, bres, bPrev>>

\* the response has been returned to the poller
ReturnBlocked ==
    /\ seen # NoRead
    /\ seen' = NoRead
    /\ UNCHANGED <<authVars, priceVars, cacheVars, extVars, restVars, counters, today, harnessVars, handlerVars, chan,
                   flusherVars, storeVars, histVars, blocked, bpc, newly_blocked, bres, bPrev>>

NextBudget ==
    \/ BCRead \/ BCErr \/ BCClear \/ BCInsert
    \/ GetBlocked \/ ReturnBlocked \/ AdvanceDay

SpecBudget == InitBudget /\ [][NextBudget]_vars

\* the projects with an active project limit whose durable counter of the
\* limit's current period has reached the limit
OverLimitProjects ==
    { k.entity_id :
        k \in { x \in DOMAIN limits :
                  /\ x.entity_type = "project"
                  /\ limits[x].is_active
                  /\ Val(durable, CurrentKey("project", x.entity_id, x.period_type, today))
                        >= limits[x].limit_cents * MicroPerCent } }

\* the step in which check_budgets returns Ok
BudgetRunCompletes == bpc # "idle" /\ bpc' = "idle"

\* C15 (the blocked set after a run): the set a run computes is exactly the set
\* of projects over an active project limit when the run reads the store, and
\* when the run completes the blocked set is the set it computed.
C15_BlockedSetExact ==
    [][/\ (bpc = "idle" /\ bpc' = "clearing") => newly_blocked' = OverLimitProjects
       /\ BudgetRunCompletes => blocked' = newly_blocked]_vars

\* C16 (atomic replacement): every read of the blocked set returns the set as
\* it was before the current run or the set the run computed.
C16_BlockedSetAtomic ==
    [][(seen = NoRead /\ seen' # NoRead) =>
          seen'.blocked \in (IF bpc = "idle" THEN {blocked} ELSE {bPrev, newly_blocked})]_vars


\* ------------------------------------------------------------------ auth cache
\* AuthCache (moka, time_to_live 60 s) in front of resolve_token; the handlers
\* of /auth/check run concurrently and get_or_resolve awaits the cache and the
\* store between its steps.

\* resolve_token_by_hash: the row is selected only if the token, its project
\* and its user are active and the token has not expired
TokenValid(row) ==
    /\ row.token_active
    /\ row.project_active
    /\ row.user_active
    /\ ~row.expired

\* the proxy_tokens row (with its project and user) at process start
TokenRows ==
    [token_active : BOOLEAN, project_active : BOOLEAN, user_active : BOOLEAN,
     expired : BOOLEAN]

\* hash_token: the SHA-256 hex digest of the bearer token
hash_token(token) == <<"sha256", token>>

\* the bearer token the requests of this specification carry
BearerToken == "xproxy_t1"

\* resolve_token: Ok(AuthContext), Err(InvalidToken) or, if the connection or a
\* query fails, Err(Internal)
resolve_token(row, store_ok) ==
    IF ~store_ok THEN "error"
    ELSE IF TokenValid(row) THEN "ok"
    ELSE "invalid"

\* Cache::get: the entry, unless time_to_live has passed since its insertion
cache_get(ch, h) ==
    IF h \in DOMAIN ch /\ ch[h].age < CacheTtl THEN {ch[h].ctx} ELSE {}

\* Cache::insert: the entry is (re)inserted with a fresh time_to_live
cache_insert(ch, h, ctx) ==
    [x \in (DOMAIN ch) \cup {h} |-> IF x = h THEN [ctx |-> ctx, age |-> 0] ELSE ch[x]]

\* the token has been revoked and its cache entry has expired
Gone(row, ch) ==
    /\ ~row.token_active
    /\ hash_token(BearerToken) \in DOMAIN ch
    /\ cache_get(ch, hash_token(BearerToken)) = {}

nonCacheVars ==
    <<counters, today, harnessVars, handlerVars, chan, flusherVars, storeVars, histVars,
      limits, priceVars, budgetVars>>

InitCache ==
    /\ InitProcess
    /\ limits = EmptyMap
    /\ usage_log = << >>
    /\ durable = EmptyMap
    /\ custom = EmptyMap
    /\ tok \in TokenRows
    /\ keys = EmptyMap
    /\ turns = EmptyMap

\* get_or_resolve, self.cache.get(token_hash): a hit returns the cached context
CacheLookup(p) ==
    /\ auth[p].pc = "idle"
    /\ LET hit == cache_get(cache, hash_token(BearerToken)) # {}
       IN  auth' = [auth EXCEPT ![p] =
                       [pc |-> IF hit THEN "done" ELSE "resolving",
                        res |-> IF hit THEN "ok" ELSE "none",
                        valid_at_start |-> TokenValid(tok),
                        gone_at_start |-> gone]]
    /\ UNCHANGED <<nonCacheVars, extVars, restVars, resp, areq, tok, cache, gone>>

\* get_or_resolve, resolve_token(pool, raw_token).await?: an Err returns at once
Resolve(p) ==
    /\ auth[p].pc = "resolving"
    /\ \E store_ok \in BOOLEAN :
          LET r == resolve_token(tok, store_ok)
          IN  auth' = [auth EXCEPT ![p].pc = IF r = "ok" THEN "inserting" ELSE "done",
                                   ![p].res = r]
    /\ UNCHANGED <<nonCacheVars, extVars, restVars, resp, areq, tok, cache, gone>>

\* get_or_resolve, self.cache.insert(token_hash, ctx).await
CacheInsert(p) ==
    /\ auth[p].pc = "inserting"
    /\ cache' = cache_insert(cache, hash_token(BearerToken), AuthCtx)
    /\ auth' = [auth EXCEPT ![p].pc = "done"]
    /\ UNCHANGED <<nonCacheVars, extVars, restVars, resp, areq, tok, gone>>

\* the rest of handle_auth_check once get_or_resolve has returned
AuthRespond(p) ==
    /\ auth[p].pc = "done"
    /\ resp = NoResp
    /\ \E has_model, pipe_found \in BOOLEAN :
          /\ resp' = handle_auth_check(counters, today, limits, TRUE, auth[p].res, has_model,
                                       pipe_found, TRUE, TRUE, TRUE)
          /\ areq' = [bearer |-> TRUE, resolved |-> auth[p].res, has_model |-> has_model,
                      pipe_found |-> pipe_found, client_ok |-> TRUE, user_q_ok |-> TRUE,
                      project_q_ok |-> TRUE]
    /\ auth' = [auth EXCEPT ![p] = IdleProc]
    /\ UNCHANGED <<nonCacheVars, extVars, restVars, tok, cache, gone>>

\* handle_revoke_token, Ok(true): the row is made inactive, the cache is left alone
RevokeToken ==
    /\ tok.token_active
    /\ tok' = [tok EXCEPT !.token_active = FALSE]
    /\ gone' = (gone \/ Gone(tok', cache))
    /\ UNCHANGED <<nonCacheVars, extVars, restVars, resp, areq, cache, auth>>

\* NOW() passes the token's expires_at
TokenExpires ==
    /\ ~tok.expired
    /\ tok' = [tok EXCEPT !.expired = TRUE]
    /\ UNCHANGED <<nonCacheVars, extVars, restVars, resp, areq, cache, auth, gone>>

\* ClockStep seconds pass
AdvanceClock ==
    /\ \E h \in DOMAIN cache : cache[h].age < CacheTtl
    /\ cache' = [h \in DOMAIN cache |->
                    [cache[h] EXCEPT !.age = IF cache[h].age + ClockStep < CacheTtl
                                             THEN cache[h].age + ClockStep
                                             ELSE CacheTtl]]
    /\ gone' = (gone \/ Gone(tok, cache'))
    /\ UNCHANGED <<nonCacheVars, extVars, restVars, resp, areq, tok, auth>>

NextCache ==
    \/ \E p \in AuthProcs : CacheLookup(p)
    \/ \E p \in AuthProcs : Resolve(p)
    \/ \E p \in AuthProcs : CacheInsert(p)
    \/ \E p \in AuthProcs : AuthRespond(p)
    \/ Respond
    \/ RevokeToken
    \/ TokenExpires
    \/ AdvanceClock

SpecCache == InitCache /\ [][NextCache]_vars

\* C19 (inactive principals cannot authenticate): a managed /auth/check answers
\* 200 only if the token, its project and its user were active and the token
\* unexpired when the check began, whether the context came from the store or
\* from the auth cache.
C19_InactiveNeverAdmitted ==
    [][\A p \in AuthProcs :
          (auth[p].pc = "done" /\ auth'[p].pc = "idle" /\ resp'.status = 200)
             => auth[p].valid_at_start]_vars

\* C20 (revocation bounded by the cache TTL): once a token has been revoked and
\* its cache entry has expired, no get_or_resolve that begins
\* later returns a context for it; and only a successful resolution is cached.
C20_RevocationBounded ==
    [][\A p \in AuthProcs :
          /\ (auth[p].pc # "done" /\ auth'[p].pc = "done" /\ auth'[p].gone_at_start)
                => auth'[p].res # "ok"
          /\ (auth[p].pc = "resolving" /\ auth'[p].pc = "done") => cache' = cache]_vars

\* ---------------------------------------------------------------- select_pipe
\* Strings are sequences of characters, so that to_lowercase, splitn, split,
\* trim and starts_with are computed as the code computes them.

\* char::to_lowercase on the upper-case letters the model's strings use
LowerChar(c) ==
    CASE c = "O" -> "o"
      [] c = "P" -> "p"
      [] c = "E" -> "e"
      [] c = "N" -> "n"
      [] c = "A" -> "a"
      [] c = "I" -> "i"
      [] c = "Z" -> "z"
      [] OTHER -> c

to_lowercase(str) == [i \in DOMAIN str |-> LowerChar(str[i])]

starts_with(str, prefix) ==
    Len(str) >= Len(prefix) /\ SubSeq(str, 1, Len(prefix)) = prefix

\* the index of the first occurrence of character c in str, 0 when there is none
find_char(str, c) ==
    IF \E i \in DOMAIN str : str[i] = c
    THEN CHOOSE i \in DOMAIN str : str[i] = c /\ \A j \in 1..(i - 1) : str[j] # c
    ELSE 0

RECURSIVE split(_, _)
\* str.split(c): the pieces between the occurrences of c, in order
split(str, c) ==
    LET i == find_char(str, c)
    IN  IF i = 0 THEN <<str>>
        ELSE <<SubSeq(str, 1, i - 1)>> \o split(SubSeq(str, i + 1, Len(str)), c)

RECURSIVE trim(_)
\* str.trim(): leading and trailing spaces removed
trim(str) ==
    IF str # << >> /\ str[1] = " " THEN trim(Tail(str))
    ELSE IF str # << >> /\ str[Len(str)] = " " THEN trim(SubSeq(str, 1, Len(str) - 1))
    ELSE str

\* the prefixes infer_provider tests, in its order, with the provider of each
InferTable ==
    <<<<<<"g", "p", "t", "-">>, <<"o", "p", "e", "n", "a", "i">>>>,
       <<<<"o", "1">>, <<"o", "p", "e", "n", "a", "i">>>>,
       <<<<"o", "3">>, <<"o", "p", "e", "n", "a", "i">>>>,
       <<<<"o", "4">>, <<"o", "p", "e", "n", "a", "i">>>>,
       <<<<"c", "h", "a", "t", "g", "p", "t">>, <<"o", "p", "e", "n", "a", "i">>>>,
       <<<<"d", "a", "l", "l", "-", "e">>, <<"o", "p", "e", "n", "a", "i">>>>,
       <<<<"t", "e", "x", "t", "-", "e", "m", "b", "e", "d", "d", "i", "n", "g">>, <<"o", "p", "e", "n", "a", "i">>>>,
       <<<<"w", "h", "i", "s", "p", "e", "r">>, <<"o", "p", "e", "n", "a", "i">>>>,
       <<<<"t", "t", "s">>, <<"o", "p", "e", "n", "a", "i">>>>,
       <<<<"c", "l", "a", "u", "d", "e">>, <<"a", "n", "t", "h", "r", "o", "p", "i", "c">>>>,
       <<<<"g", "e", "m", "i", "n", "i">>, <<"g", "o", "o", "g", "l", "e">>>>,
       <<<<"g", "e", "m", "m", "a">>, <<"g", "o", "o", "g", "l", "e">>>>,
       <<<<"m", "i", "s", "t", "r", "a", "l">>, <<"m", "i", "s", "t", "r", "a", "l">>>>,
       <<<<"m", "i", "x", "t", "r", "a", "l">>, <<"m", "i", "s", "t", "r", "a", "l">>>>,
       <<<<"m", "i", "n", "i", "s", "t", "r", "a", "l">>, <<"m", "i", "s", "t", "r", "a", "l">>>>,
       <<<<"c", "o", "d", "e", "s", "t", "r", "a", "l">>, <<"m", "i", "s", "t", "r", "a", "l">>>>,
       <<<<"p", "i", "x", "t", "r", "a", "l">>, <<"m", "i", "s", "t", "r", "a", "l">>>>,
       <<<<"l", "l", "a", "m", "a">>, <<"m", "e", "t", "a">>>>,
       <<<<"m", "e", "t", "a", "-", "l", "l", "a", "m", "a">>, <<"m", "e", "t", "a">>>>,
       <<<<"d", "e", "e", "p", "s", "e", "e", "k">>, <<"d", "e", "e", "p", "s", "e", "e", "k">>>>,
       <<<<"c", "o", "m", "m", "a", "n", "d">>, <<"c", "o", "h", "e", "r", "e">>>>,
       <<<<"e", "m", "b", "e", "d", "-">>, <<"c", "o", "h", "e", "r", "e">>>>,
       <<<<"r", "e", "r", "a", "n", "k", "-">>, <<"c", "o", "h", "e", "r", "e">>>>>>

\* infer_provider: << >> stands for None
infer_provider(model) ==
    LET m == to_lowercase(model)
        hits == {i \in DOMAIN InferTable : starts_with(m, InferTable[i][1])}
    IN  IF hits = {} THEN << >>
        ELSE InferTable[CHOOSE i \in hits : \A j \in hits : i <= j][2]

\* a faulty variant of derive_provider: the text before the slash is kept as written
derive_provider_as_written(model) ==
    IF find_char(model, "/") # 0
    THEN LET i == find_char(model, "/")
         IN  [provider |-> SubSeq(model, 1, i - 1),
              model_id |-> SubSeq(model, i + 1, Len(model))]
    ELSE IF infer_provider(model) # << >>
    THEN [provider |-> infer_provider(model), model_id |-> model]
    ELSE [provider |-> to_lowercase(model), model_id |-> model]

\* the (provider, model_id) pair select_pipe derives from the model name
derive_provider(model) ==
    IF find_char(model, "/") # 0
    THEN LET i == find_char(model, "/")
         IN  [provider |-> to_lowercase(SubSeq(model, 1, i - 1)),
              model_id |-> SubSeq(model, i + 1, Len(model))]
    ELSE IF infer_provider(model) # << >>
    THEN [provider |-> infer_provider(model), model_id |-> model]
    ELSE [provider |-> to_lowercase(model), model_id |-> model]

\* Option<String>::None of model_filter
NoFilter == <<"<none>">>

\* a faulty variant of filter_allows: the post-slash model id is not tried
filter_allows_full_only(filter, model, model_id) ==
    \/ filter = NoFilter
    \/ LET allowed == split(filter, ",")
       IN  \E k \in DOMAIN allowed :
              \/ trim(allowed[k]) = <<"*">>
              \/ trim(allowed[k]) = model

\* the filter check on one pipe: is_match of the code, TRUE when there is no filter
filter_allows(filter, model, model_id) ==
    \/ filter = NoFilter
    \/ LET allowed == split(filter, ",")
       IN  \E k \in DOMAIN allowed :
              \/ trim(allowed[k]) = <<"*">>
              \/ trim(allowed[k]) = model
              \/ trim(allowed[k]) = model_id

RECURSIVE select_pipe_from(_, _, _, _)
\* the loop of select_pipe from pipe i on; d is the derived (provider, model_id)
select_pipe_from(pipes, i, model, d) ==
    IF i > Len(pipes)
    THEN [ok |-> FALSE, err |-> "NoPipeFound", provider |-> d.provider, model |-> model]
    ELSE IF to_lowercase(pipes[i].provider) # d.provider
    THEN select_pipe_from(pipes, i + 1, model, d)
    ELSE IF ~filter_allows(pipes[i].model_filter, model, d.model_id)
    THEN select_pipe_from(pipes, i + 1, model, d)
    ELSE [ok |-> TRUE, pipe_id |-> pipes[i].id, provider |-> pipes[i].provider,
          api_key_decrypted |-> pipes[i].api_key_encrypted, model |-> model]

select_pipe(pipes, model) == select_pipe_from(pipes, 1, model, derive_provider(model))

\* the model names of the requests
PipeModels == {<<"o", "1">>, <<"O", "1">>, <<"o", "p", "e", "n", "a", "i", "/", "o", "1">>, <<"O", "p", "e", "n", "A", "I", "/", "o", "1">>, <<"z", "z">>}

\* the provider and model_filter columns of the pipes rows
PipeProviders == {<<"o", "p", "e", "n", "a", "i">>, <<"O", "p", "e", "n", "A", "I">>, <<"z", "z">>}
PipeFilters == {NoFilter, <<"*">>, <<"o", "1">>, <<"o", "p", "e", "n", "a", "i", "/", "o", "1">>, <<"z", "z", ",", " ", "o", "1">>, <<"O", "1">>, <<>>}

\* the pipes of an auth context, in the order the query returned them; the row
\* at position i has id i and its own API key
PipeLists ==
    UNION { { [i \in 1..n |-> [id |-> i, provider |-> f[i][1], model_filter |-> f[i][2],
                               api_key_encrypted |-> <<"key", i>>]] :
                f \in [1..n -> PipeProviders \X PipeFilters] } : n \in 0..MaxPipes }

InitPipe ==
    /\ InitServices
    /\ limits = EmptyMap
    /\ usage_log = << >>
    /\ durable = EmptyMap
    /\ custom = EmptyMap
    /\ tok = ValidToken
    /\ keys = EmptyMap
    /\ turns = EmptyMap
    /\ call \in [fn : {"select_pipe"}, pipes : PipeLists, model : PipeModels]

\* handle_auth_check calls select_pipe(&auth_ctx, &model)
SelectPipe ==
    /\ call.fn = "select_pipe"
    /\ ret = NoRet
    /\ ret' = select_pipe(call.pipes, call.model)
    /\ UNCHANGED <<nonCacheVars, authVars, cacheVars, restVars, call>>

NextPipe == SelectPipe

SpecPipe == InitPipe /\ [][NextPipe]_vars

\* the entries of a comma-separated model_filter
FilterEntries(filter) == {trim(split(filter, ",")[k]) : k \in DOMAIN split(filter, ",")}

\* pipe satisfies the selection condition for the model: its provider is the
\* derived provider and its filter is unset or holds `*`, the full model
\* string or the post-slash model id
PipeMatches(pipe, model) ==
    /\ to_lowercase(pipe.provider) = derive_provider(model).provider
    /\ \/ pipe.model_filter = NoFilter
       \/ FilterEntries(pipe.model_filter)
             \cap {<<"*">>, model, derive_provider(model).model_id} # {}

\* C21 (pipe selection): select_pipe returns the first pipe in list order that
\* satisfies the selection condition, with that pipe's API key unchanged, and
\* fails with NoPipeFound{provider, model} exactly when no pipe satisfies it.
C21_PipeSelection ==
    (call.fn = "select_pipe" /\ ret # NoRet) =>
        LET m == {i \in DOMAIN call.pipes : PipeMatches(call.pipes[i], call.model)}
        IN  IF m = {}
            THEN ret = [ok |-> FALSE, err |-> "NoPipeFound",
                        provider |-> derive_provider(call.model).provider,
                        model |-> call.model]
            ELSE LET first == CHOOSE i \in m : \A j \in m : i <= j
                 IN  /\ ret.ok
                     /\ ret.pipe_id = call.pipes[first].id
                     /\ ret.api_key_decrypted = call.pipes[first].api_key_encrypted
                     /\ ret.provider = call.pipes[first].provider
                     /\ ret.model = call.model

\* C21 witness: two pipes satisfy the condition, the first only through the
\* post-slash model id in its filter, and the first one was returned
C21_Witness ==
    /\ call.fn = "select_pipe"
    /\ ret # NoRet
    /\ ret.ok
    /\ Len(call.pipes) = 2
    /\ PipeMatches(call.pipes[1], call.model)
    /\ PipeMatches(call.pipes[2], call.model)
    /\ call.pipes[1].model_filter # NoFilter
    /\ FilterEntries(call.pipes[1].model_filter) \cap {<<"*">>, call.model} = {}
    /\ ret.pipe_id = 1

\* ------------------------------------- API-key registry and firewall /auth/check

\* a string is the sequence of its parts; "é" is a character outside visible ASCII
KeyProviders == {<<"openai">>}
KeyUrls == {<<"https://api.openai.com">>, <<"https://api.", "é", ".example">>}
KeyEgress == {<<"default">>, <<"10.0.0.1">>}
ApiKeys == {"sk-1", "sk-2"}
Bearers == ApiKeys \cup {NoBearer}

\* HeaderValue::from_str: every byte is visible ASCII
header_value_ok(str) == \A i \in 1..Len(str) : str[i] # "é"

\* the rows of registered_api_keys; key_hash is unique
KeyRows ==
    { r \in [project_id : Projects, provider : KeyProviders, upstream_url : KeyUrls,
             egress_ip : KeyEgress, is_active : BOOLEAN] :
        r.egress_ip = <<"default">> \/ (r.is_active /\ header_value_ok(r.upstream_url)) }
KeyTables ==
    UNION { [hs -> KeyRows] : hs \in SUBSET { hash_token(k) : k \in ApiKeys } }

\* ApiKeyRegistry::lookup; << >> is None
lookup(map, key_hash) == IF key_hash \in DOMAIN map THEN <<map[key_hash]>> ELSE << >>

\* reload: the rows of SELECT ... WHERE is_active = true, collected into new_entries
\* (a faulty variant that drops the WHERE clause comes first)
reload_query_all(tbl) == tbl
reload_query(tbl) == [h \in {x \in DOMAIN tbl : tbl[x].is_active} |-> tbl[h]]

\* the cluster name of an entry
cluster_name(info) ==
    IF info.egress_ip = <<"default">> THEN info.provider
    ELSE info.provider \o <<"-">> \o info.egress_ip

\* error_response, with the (empty) map of x-xproxy headers
fw_error(status, message) == [error_response(status, message) EXCEPT !.headers = EmptyMap]

\* the task of a handler whose parse().unwrap() panicked: no response is written
Panicked == [status |-> 0, error |-> "panicked", headers |-> EmptyMap]

\* handle_firewall_auth_check against the registry map it read
handle_firewall_auth_check(bearer, map) ==
    IF bearer = NoBearer
    THEN fw_error(401, "missing bearer token (API key required for firewall mode)")
    ELSE LET key_hash == hash_token(bearer)
             found == lookup(map, key_hash)
         IN  IF found = << >>
             THEN fw_error(401, "API key not registered. Register your API key at the xproxy dashboard.")
             ELSE LET key_info == found[1]
                  IN  IF ~ header_value_ok(key_info.upstream_url)
                         \/ ~ header_value_ok(cluster_name(key_info))
                      THEN Panicked
                      ELSE [status |-> 200, error |-> "",
                            headers |-> [n \in {"x-xproxy-firewall-mode", "x-xproxy-upstream-url",
                                                "x-xproxy-project-id", "x-xproxy-provider-hint",
                                                "x-xproxy-api-key-hash"} |->
                                CASE n = "x-xproxy-firewall-mode" -> <<"true">>
                                  [] n = "x-xproxy-upstream-url" -> key_info.upstream_url
                                  [] n = "x-xproxy-project-id" -> <<key_info.project_id>>
                                  [] n = "x-xproxy-provider-hint" -> cluster_name(key_info)
                                  [] OTHER -> key_hash]]

InitRegistry ==
    /\ InitProcess
    /\ limits = EmptyMap
    /\ usage_log = << >>
    /\ durable = EmptyMap
    /\ custom = EmptyMap
    /\ tok = ValidToken
    /\ keys \in KeyTables
    /\ turns = EmptyMap

nonRegVars ==
    <<counters, today, harnessVars, handlerVars, chan, flusherVars, storeVars, histVars,
      authVars, priceVars, budgetVars, cacheVars, extVars, convVars>>

\* POST .../api-keys: INSERT INTO registered_api_keys (is_active takes its default)
RegisterKey ==
    \E k \in ApiKeys, row \in KeyRows :
        /\ row.is_active
        /\ hash_token(k) \notin DOMAIN keys
        /\ keys' = [h \in DOMAIN keys \cup {hash_token(k)} |->
                      IF h = hash_token(k) THEN row ELSE keys[h]]
        /\ UNCHANGED <<nonRegVars, entries, rpc, new_entries, rres, fwreq, fwresp, qseen>>

\* DELETE .../api-keys/{id}
DeleteKey ==
    \E h \in DOMAIN keys :
        /\ keys' = [x \in DOMAIN keys \ {h} |-> keys[x]]
        /\ UNCHANGED <<nonRegVars, entries, rpc, new_entries, rres, fwreq, fwresp, qseen>>

\* reload up to the write lock: get_client and the query, which either fail ...
ReloadErr ==
    /\ rpc = "idle"
    /\ rres' = "err"
    /\ rpc' = after_tick("err")
    /\ UNCHANGED <<nonRegVars, keys, entries, new_entries, fwreq, fwresp, qseen>>

\* ... or return the rows, from which new_entries is built
ReloadQuery ==
    /\ rpc = "idle"
    /\ new_entries' = reload_query(keys)
    /\ qseen' = keys
    /\ rpc' = "swapping"
    /\ UNCHANGED <<nonRegVars, keys, entries, rres, fwreq, fwresp>>

\* *self.entries.write().await = new_entries
ReloadSwap ==
    /\ rpc = "swapping"
    /\ entries' = new_entries
    /\ new_entries' = EmptyMap
    /\ rres' = "ok"
    /\ rpc' = "idle"
    /\ qseen' = EmptyMap
    /\ UNCHANGED <<nonRegVars, keys, fwreq, fwresp>>

\* one firewall-mode /auth/check request; lookup reads entries under the read lock
FirewallCheck ==
    \E b \in Bearers :
        /\ fwreq' = [bearer |-> b, found |-> lookup(entries, hash_token(b)), sent |-> TRUE]
        /\ fwresp' = handle_firewall_auth_check(b, entries)
        /\ UNCHANGED <<nonRegVars, keys, entries, rpc, new_entries, rres, qseen>>

NextRegistry ==
    \/ RegisterKey
    \/ DeleteKey
    \/ ReloadErr
    \/ ReloadQuery
    \/ ReloadSwap
    \/ FirewallCheck

SpecRegistry == InitRegistry /\ [][NextRegistry]_vars

\* the key of the request being answered was in the map that lookup read
FwKnown == fwreq.bearer # NoBearer /\ fwreq.found # << >>

\* C22: a firewall-mode /auth/check is answered 200 exactly when the hash of its
\* Bearer key is in the registry snapshot; the 200 then carries the provider (with
\* "-<egress_ip>" appended unless egress_ip is "default") as provider hint and the
\* entry's upstream URL and project id and the key hash; a missing Bearer key or an
\* unknown hash is answered 401.
C22_FirewallAdmission ==
    fwreq.sent =>
        /\ (fwresp.status = 200 <=> FwKnown)
        /\ (~ FwKnown => fwresp.status = 401)
        /\ (FwKnown =>
              LET e == fwreq.found[1]
              IN  /\ fwresp.headers["x-xproxy-provider-hint"] =
                        (IF e.egress_ip = <<"default">> THEN e.provider
                         ELSE e.provider \o <<"-">> \o e.egress_ip)
                  /\ fwresp.headers["x-xproxy-upstream-url"] = e.upstream_url
                  /\ fwresp.headers["x-xproxy-project-id"] = <<e.project_id>>
                  /\ fwresp.headers["x-xproxy-api-key-hash"] = hash_token(fwreq.bearer))

\* the active rows of a registered_api_keys table, as a registry map
IsActiveSnapshot(map, tbl) ==
    /\ DOMAIN map = {h \in DOMAIN tbl : tbl[h].is_active}
    /\ \A h \in DOMAIN map : map[h] = tbl[h]

\* C23: the registry map only ever changes, in one step, to the complete set of
\* the rows that were active when the reload's query read the table; a reload that
\* returns Ok leaves exactly that map, a reload that returns Err leaves the map as
\* it was, and a lookup answers from the map in place when it runs.
C23_ReloadAtomic ==
    [][ /\ (entries' # entries => rpc = "swapping" /\ IsActiveSnapshot(entries', qseen))
        /\ (rpc = "swapping" /\ rpc' = "idle" => rres' = "ok" /\ IsActiveSnapshot(entries', qseen))
        /\ (rres' = "err" => entries' = entries)
        /\ (fwreq' # fwreq => fwreq'.found = lookup(entries, hash_token(fwreq'.bearer))) ]_vars

\* a key whose row is no longer active is refused after a reload that kept another key
C23_Witness ==
    /\ rpc = "idle"
    /\ rres = "ok"
    /\ entries # EmptyMap
    /\ fwreq.sent
    /\ fwreq.bearer # NoBearer
    /\ hash_token(fwreq.bearer) \in DOMAIN keys
    /\ ~ keys[hash_token(fwreq.bearer)].is_active
    /\ hash_token(fwreq.bearer) \notin DOMAIN entries
    /\ fwresp.status = 401

\* ------------------------------------------------ claims on POST /usage/record

\* the bodies of the recording runs: managed with and without a user, with a
\* negative and with a sub-micro-cent cost, firewall mode, and one that does not parse
RecordBodies ==
    RequestBodies \cup
    { [user_id |-> "u1", project_id |-> "p1", model |-> "gpt",
       input_tokens |-> 1, output_tokens |-> 1, firewall_mode |-> FALSE],
      [user_id |-> NoUser, project_id |-> BadUuid, model |-> "gpt",
       input_tokens |-> 1, output_tokens |-> 0, firewall_mode |-> FALSE] }

UsageRecordR == HandleUsageRecord(RecordBodies)

NextRecord == UsageRecordR \/ Enqueue \/ AdvanceDay

SpecRecord == Init /\ [][NextRecord]_vars

\* the counters a managed-mode request of this body adds to
RecordKeys(body, date) ==
    { CurrentKey("project", body.project_id, pt, date) : pt \in PeriodTypes }
      \cup (IF body.user_id = NoUser THEN {}
            ELSE { CurrentKey("user", body.user_id, pt, date) : pt \in PeriodTypes })

\* C24: a /usage/record request in managed mode is priced at once, adds one and the
\* same micro-cent amount (the truncated cost) to the project's daily and monthly
\* counters, and to the user's when the body has a user_id, changes no other
\* counter and hands one event with that cost and is_priced = true to the channel;
\* in firewall mode no counter changes and the one event has cost_cents = 0 and
\* is_priced = false; a body that does not parse is answered 400, changes no counter
\* and produces no event.
C24_RecordModes ==
    [][ nReq' = nReq + 1 =>
          LET body == ureq'
              new == sending' \ sending
              allKeys == DOMAIN counters \cup DOMAIN counters' \cup RecordKeys(body, today)
          IN  IF ~ from_slice_ok(body)
              THEN /\ uresp'.status = 400
                   /\ \A k \in allKeys : Val(counters', k) = Val(counters, k)
                   /\ new = {}
                   /\ chan' = chan
              ELSE /\ uresp'.status = 200
                   /\ \E e \in new :
                        /\ new = {e}
                        /\ e.project_id = body.project_id
                        /\ e.user_id = body.user_id
                        /\ e.model = body.model
                        /\ IF body.firewall_mode
                           THEN /\ e.cost_cents = 0
                                /\ ~ e.is_priced
                                /\ \A k \in allKeys : Val(counters', k) = Val(counters, k)
                           ELSE /\ e.is_priced
                                /\ e.cost_cents = calculate_cost(body.model, body.input_tokens,
                                                                 body.output_tokens)
                                /\ uresp'.cost_cents = e.cost_cents
                                /\ \A k \in allKeys :
                                     Val(counters', k) = Val(counters, k)
                                        + (IF k \in RecordKeys(body, today)
                                           THEN to_micro_cents(e.cost_cents) ELSE 0) ]_vars

\* the second managed request of a user has been answered: the user's daily
\* counter holds the amounts of both
C24_Witness ==
    /\ nReq = 2
    /\ uresp.status = 200
    /\ ureq.user_id = "u1"
    /\ ~ ureq.firewall_mode
    /\ Val(counters, CurrentKey("user", "u1", "daily", today)) = 2 * MicroPerCent
    /\ Val(counters, CurrentKey("project", "p1", "monthly", today)) = 2 * MicroPerCent

\* ------------------------------------------------- LlmProviders (common crate)

\* str.ends_with(suffix)
ends_with(str, suffix) ==
    Len(str) >= Len(suffix) /\ SubSeq(str, Len(str) - Len(suffix) + 1, Len(str)) = suffix

RECURSIVE trim_end_matches(_, _)
\* str.trim_end_matches(pat): pat is removed from the end as often as it matches
trim_end_matches(str, pat) ==
    IF ends_with(str, pat)
    THEN trim_end_matches(SubSeq(str, 1, Len(str) - Len(pat)), pat)
    ELSE str

\* LlmProvider.model = None
NoModel == <<"<none>">>

\* the models of ProviderId::try_from(prefix), none when the prefix is no ProviderId
KnownModels(prefix) == IF prefix = <<"o", "p", "e", "n", "a", "i">> THEN << <<"g", "p", "t", "-", "4">> >> ELSE << >>

is_wildcard(provider) ==
    provider.model # NoModel
      /\ (provider.model = <<"*">> \/ ends_with(provider.model, <<"/", "*">>))

provider_prefix(name) == trim_end_matches(trim_end_matches(name, <<"/", "*">>), <<"*">>)

\* HashMap::insert
MapInsert(map, k, v) == [x \in DOMAIN map \cup {k} |-> IF x = k THEN v ELSE map[x]]

RECURSIVE expand_wildcard(_, _, _, _)
\* the loop over provider_id.models(): each model is inserted under its full id
\* and under its bare name, replacing what the key held
expand_wildcard(map, provider, prefix, models) ==
    IF models = << >> THEN map
    ELSE LET model_name == Head(models)
             full_model_id == prefix \o <<"/">> \o model_name
             expanded == [provider EXCEPT !.model = model_name, !.name = full_model_id]
         IN  expand_wildcard(MapInsert(MapInsert(map, full_model_id, expanded), model_name, expanded),
                             provider, prefix, Tail(models))

\* LlmProviders.default = None
NoDefault == [name |-> <<"<none>">>]

RECURSIVE try_from_at(_, _, _)
\* the loop of LlmProviders::try_from from entry i on
try_from_at(config, i, st) ==
    IF i > Len(config) THEN st
    ELSE LET llm_provider == config[i]
             name == llm_provider.name
             st1 == IF llm_provider.default THEN [st EXCEPT !.default = llm_provider] ELSE st
         IN  IF llm_provider.default /\ st.default # NoDefault
             THEN [st EXCEPT !.err = "MoreThanOneDefault"]
             ELSE IF is_wildcard(llm_provider)
             THEN LET prefix == provider_prefix(name)
                  IN  try_from_at(config, i + 1,
                         [st1 EXCEPT !.wildcard_providers = MapInsert(@, prefix, llm_provider),
                                     !.providers = expand_wildcard(@, llm_provider, prefix,
                                                                   KnownModels(prefix))])
             ELSE IF name \in DOMAIN st1.providers
             THEN [st1 EXCEPT !.err = "DuplicateName"]
             ELSE LET named == MapInsert(st1.providers, name, llm_provider)
                  IN  IF llm_provider.model = NoModel
                      THEN try_from_at(config, i + 1, [st1 EXCEPT !.providers = named])
                      ELSE IF llm_provider.model \in DOMAIN named
                      THEN [st1 EXCEPT !.err = "DuplicateName"]
                      ELSE try_from_at(config, i + 1,
                              [st1 EXCEPT !.providers = MapInsert(named, llm_provider.model, llm_provider)])

\* LlmProviders::try_from; err = "" is Ok
try_from(config) ==
    IF config = << >>
    THEN [err |-> "EmptySource", providers |-> EmptyMap, wildcard_providers |-> EmptyMap,
          default |-> NoDefault]
    ELSE try_from_at(config, 1, [err |-> "", providers |-> EmptyMap,
                                 wildcard_providers |-> EmptyMap, default |-> NoDefault])

\* LlmProviders::get; full_model_id is name again, so its lookup finds nothing new
get(llm_providers, name) ==
    LET i == find_char(name, "/")
        provider_prefix_ == SubSeq(name, 1, i - 1)
        model_name == SubSeq(name, i + 1, Len(name))
        full_model_id == provider_prefix_ \o <<"/">> \o model_name
    IN  IF name \in DOMAIN llm_providers.providers
        THEN [ok |-> TRUE, provider |-> llm_providers.providers[name]]
        ELSE IF i = 0 THEN [ok |-> FALSE, err |-> "None"]
        ELSE IF full_model_id \in DOMAIN llm_providers.providers
        THEN [ok |-> TRUE, provider |-> llm_providers.providers[full_model_id]]
        ELSE IF model_name \in DOMAIN llm_providers.providers
        THEN [ok |-> TRUE, provider |-> llm_providers.providers[model_name]]
        ELSE IF provider_prefix_ \in DOMAIN llm_providers.wildcard_providers
        THEN [ok |-> TRUE,
              provider |-> [llm_providers.wildcard_providers[provider_prefix_]
                              EXCEPT !.model = model_name]]
        ELSE [ok |-> FALSE, err |-> "None"]

\* the names and models of the configured entries, and the names requested
ProviderNames == {<<"o", "p", "e", "n", "a", "i", "/", "*">>, <<"c", "u", "s", "t", "o", "m", "/", "*">>, <<"g", "p", "t", "-", "4">>, <<"m", "1">>, <<"m", "y", "-", "l", "l", "m">>}
ProviderModels == {<<"*">>, <<"g", "p", "t", "-", "4">>, <<"m", "2">>, NoModel}
RequestedNames == {<<"o", "p", "e", "n", "a", "i", "/", "g", "p", "t", "-", "4">>, <<"o", "p", "e", "n", "a", "i", "/", "m", "1">>, <<"c", "u", "s", "t", "o", "m", "/", "m", "1">>, <<"c", "u", "s", "t", "o", "m", "/", "g", "p", "t", "-", "4">>, <<"c", "u", "s", "t", "o", "m", "/">>, <<"m", "1">>}

\* the configurations: entry i carries its position as its base configuration
ProviderConfigs ==
    UNION { { [i \in 1..n |-> [name |-> f[i][1], model |-> f[i][2], base |-> i,
                               default |-> FALSE]] :
                f \in [1..n -> ProviderNames \X ProviderModels] } : n \in 1..MaxProviders }

InitProviders ==
    /\ InitServices
    /\ limits = EmptyMap
    /\ usage_log = << >>
    /\ durable = EmptyMap
    /\ custom = EmptyMap
    /\ tok = ValidToken
    /\ keys = EmptyMap
    /\ turns = EmptyMap
    /\ call \in [fn : {"get"}, config : ProviderConfigs, name : RequestedNames]

\* llm_providers.get(name) on the providers built from the configuration
GetProvider ==
    /\ call.fn = "get"
    /\ ret = NoRet
    /\ ret' = IF try_from(call.config).err = "" THEN get(try_from(call.config), call.name)
              ELSE [ok |-> FALSE, err |-> try_from(call.config).err]
    /\ UNCHANGED <<nonCacheVars, authVars, cacheVars, restVars, call>>

NextProviders == GetProvider

SpecProviders == InitProviders /\ [][NextProviders]_vars

\* the entries of a configuration that are wildcards for a provider prefix
WildcardsFor(config, prefix) ==
    { i \in DOMAIN config :
        /\ config[i].model \in {<<"*">>}
        /\ config[i].name = prefix \o <<"/", "*">> }

\* the requested name is <prefix>/<anything>
SlugPrefix(name) == SubSeq(name, 1, find_char(name, "/") - 1)
SlugModel(name) == SubSeq(name, find_char(name, "/") + 1, Len(name))

\* C25: when the configuration loads and holds a wildcard entry for <provider>,
\* get("<provider>/<anything>") returns an entry whose model is <anything> and
\* whose base configuration is that of a wildcard entry for <provider> (expanded
\* at load time or synthesized at lookup time).
C25_WildcardResolution ==
    ( /\ call.fn = "get"
      /\ ret # NoRet
      /\ try_from(call.config).err = ""
      /\ find_char(call.name, "/") > 0
      /\ WildcardsFor(call.config, SlugPrefix(call.name)) # {} )
    => /\ ret.ok
       /\ ret.provider.model = SlugModel(call.name)
       /\ ret.provider.base \in WildcardsFor(call.config, SlugPrefix(call.name))

\* ---------------------------------- llm_chat and the conversation state store

\* the response ids the gateway synthesizes, and one it never issued
ResponseIds == <<"resp_1", "resp_2", "resp_3", "resp_4">>
ResponseId(n) == ResponseIds[n]
UnknownId == "resp_x"
\* the assistant output accumulated from the stream of response n
Output(n) == << <<"assistant", n>> >>

\* the requests once n response ids have been issued: the client API, the input
\* items, previous_response_id (none, an issued id or one never issued), whether
\* the body parses and names a configured model, and whether the upstream of
\* that model serves /v1/responses natively; only a responses-API body has a
\* previous_response_id, and one rejected body stands for all
LlmRequests(n) ==
    { r \in [api : {"responses", "chat"}, input : {<<"A">>, <<"B">>},
             previous_response_id : {NoId, UnknownId} \cup {ResponseId(i) : i \in 1..n},
             valid : BOOLEAN, native : BOOLEAN, lookup : {"none"}] :
        /\ r.api = "chat" => (r.previous_response_id = NoId /\ ~ r.native)
        /\ ~ r.valid => (r.api = "chat" /\ r.input = <<"A">>) }

\* StateStorage::get followed by the concatenation: the stored turn's input items,
\* its output, then the new items
retrieve_and_combine_input(store, prev_resp_id, new_items, store_ok) ==
    IF ~ store_ok THEN [err |-> "StorageError", items |-> << >>]
    ELSE IF prev_resp_id \notin DOMAIN store THEN [err |-> "NotFound", items |-> << >>]
    ELSE [err |-> "",
          items |-> store[prev_resp_id].input_items \o store[prev_resp_id].output \o new_items]

\* StateStorage::put
put(store, id, turn) == [x \in DOMAIN store \cup {id} |-> IF x = id THEN turn ELSE store[x]]

\* a faulty variant of resolve_conversation_state: an unknown previous id is
\* handled like a storage error, the request goes on without history
resolve_conversation_state_lenient(req, store, store_ok) ==
    IF req.api # "responses" \/ store = NoStorage
    THEN [status |-> 0, should_manage_state |-> FALSE, original_input_items |-> << >>,
          input |-> req.input]
    ELSE IF req.native
    THEN [status |-> 0, should_manage_state |-> FALSE, original_input_items |-> req.input,
          input |-> req.input]
    ELSE IF req.previous_response_id # NoId
            /\ retrieve_and_combine_input(store, req.previous_response_id, req.input, store_ok).err = ""
    THEN LET combined == retrieve_and_combine_input(store, req.previous_response_id, req.input, store_ok)
         IN  [status |-> 0, should_manage_state |-> TRUE,
              original_input_items |-> combined.items, input |-> combined.items]
    ELSE [status |-> 0, should_manage_state |-> TRUE, original_input_items |-> req.input,
          input |-> req.input]

\* resolve_conversation_state: status 0 is Ok(ConversationStateContext), input is
\* the request's input as left in client_request
resolve_conversation_state(req, store, store_ok) ==
    IF req.api # "responses" \/ store = NoStorage
    THEN [status |-> 0, should_manage_state |-> FALSE, original_input_items |-> << >>,
          input |-> req.input]
    ELSE IF req.native
    THEN [status |-> 0, should_manage_state |-> FALSE, original_input_items |-> req.input,
          input |-> req.input]
    ELSE IF req.previous_response_id # NoId
    THEN LET combined == retrieve_and_combine_input(store, req.previous_response_id, req.input, store_ok)
         IN  IF combined.err = ""
             THEN [status |-> 0, should_manage_state |-> TRUE,
                   original_input_items |-> combined.items, input |-> combined.items]
             ELSE IF combined.err = "NotFound"
             THEN [status |-> 409, should_manage_state |-> FALSE, original_input_items |-> << >>,
                   input |-> req.input]
             ELSE [status |-> 0, should_manage_state |-> TRUE, original_input_items |-> req.input,
                   input |-> req.input]
    ELSE [status |-> 0, should_manage_state |-> TRUE, original_input_items |-> req.input,
          input |-> req.input]

\* send_upstream wraps the stream with the state processor
wraps_state_processor(ctx, store) ==
    ctx.should_manage_state /\ ctx.original_input_items # << >> /\ store # NoStorage

\* a faulty variant of llm_chat_inner's early returns: a body that fails to parse goes on
phase_after_parse_any(parsed_ok) == "parsed"
\* llm_chat_inner after parse_and_validate_request: Err(response) returns
phase_after_parse(parsed_ok) == IF parsed_ok THEN "parsed" ELSE "idle"

InitLlm ==
    /\ InitProcess
    /\ limits = EmptyMap
    /\ usage_log = << >>
    /\ durable = EmptyMap
    /\ custom = EmptyMap
    /\ tok = ValidToken
    /\ keys = EmptyMap
    /\ turns \in {EmptyMap, NoStorage}

nonConvVars ==
    <<counters, today, harnessVars, handlerVars, chan, flusherVars, storeVars, histVars,
      authVars, priceVars, budgetVars, cacheVars, extVars, regVars>>

\* Phase 1, parse_and_validate_request: a body or a model that is rejected is
\* answered 400
LlmParse ==
    /\ lpc = "idle"
    /\ nTurn < MaxTurns
    /\ \E req \in LlmRequests(nTurn) :
        /\ lreq' = req
        /\ lpc' = phase_after_parse(req.valid)
        /\ lresp' = IF req.valid THEN 0 ELSE 400
        /\ ltrace' = IF req.valid THEN <<"parse">> ELSE <<"parse", "reject">>
    /\ lctx' = NoCtx
    /\ upstream' = NoSend
    /\ UNCHANGED <<nonConvVars, turns, lhist, nTurn, ac>>

\* Phase 2, resolve_conversation_state; the store answers or fails
LlmResolve ==
    /\ lpc = "parsed"
    /\ \E store_ok \in BOOLEAN :
        LET r == resolve_conversation_state(lreq, turns, store_ok)
            looked == lreq.api = "responses" /\ turns # NoStorage /\ ~ lreq.native
                        /\ lreq.previous_response_id # NoId
        IN  /\ lreq' = [lreq EXCEPT !.lookup =
                          IF ~ looked THEN "none"
                          ELSE IF ~ store_ok THEN "error"
                          ELSE IF lreq.previous_response_id \in DOMAIN turns THEN "found"
                          ELSE "absent"]
            /\ IF r.status # 0
               THEN /\ lresp' = r.status
                    /\ lpc' = "idle"
                    /\ ltrace' = ltrace \o <<"hydrate", "reject">>
                    /\ lctx' = lctx
               ELSE /\ lresp' = lresp
                    /\ lpc' = "resolved"
                    /\ ltrace' = Append(ltrace, "hydrate")
                    /\ lctx' = [should_manage_state |-> r.should_manage_state,
                                original_input_items |-> r.original_input_items,
                                input |-> r.input]
    /\ UNCHANGED <<nonConvVars, turns, upstream, lhist, nTurn, ac>>

\* Phase 3, router_chat_get_upstream_model: Err is answered with its status
LlmRoute ==
    /\ lpc = "resolved"
    /\ \E routed_ok \in BOOLEAN :
        /\ lpc' = IF routed_ok THEN "routed" ELSE "idle"
        /\ lresp' = IF routed_ok THEN lresp ELSE 500
        /\ ltrace' = IF routed_ok THEN Append(ltrace, "route") ELSE ltrace \o <<"route", "reject">>
    /\ UNCHANGED <<nonConvVars, turns, lreq, lctx, upstream, lhist, nTurn, ac>>

\* Phase 4, send_upstream up to the response it returns: the POST completes and
\* the upstream status is propagated, or it fails and 500 is returned
LlmSend ==
    /\ lpc = "routed"
    /\ \E sent_ok \in BOOLEAN :
        /\ upstream' = IF sent_ok THEN <<lctx.input>> ELSE NoSend
        /\ lpc' = IF sent_ok THEN "streaming" ELSE "idle"
        /\ lresp' = IF sent_ok THEN 200 ELSE 500
        /\ ltrace' = IF sent_ok THEN Append(ltrace, "send") ELSE ltrace \o <<"send_failed", "reject">>
    /\ UNCHANGED <<nonConvVars, turns, lreq, lctx, lhist, nTurn, ac>>

\* the response stream runs to its end; when it is wrapped with the state
\* processor the turn is put under a new response id (a put that fails stores nothing)
LlmStream ==
    /\ lpc = "streaming"
    /\ lpc' = "idle"
    /\ ltrace' = Append(ltrace, "stream")
    /\ \E put_ok \in BOOLEAN :
        IF wraps_state_processor(lctx, turns) /\ put_ok
        THEN LET id == ResponseId(nTurn + 1)
             IN  /\ turns' = put(turns, id, [input_items |-> lctx.original_input_items,
                                             output |-> Output(nTurn + 1)])
                 /\ lhist' = [x \in DOMAIN lhist \cup {id} |->
                               IF x = id THEN [previous_response_id |-> lreq.previous_response_id,
                                               new_items |-> lreq.input,
                                               output |-> Output(nTurn + 1)]
                               ELSE lhist[x]]
                 /\ nTurn' = nTurn + 1
        ELSE UNCHANGED <<turns, lhist, nTurn>>
    /\ UNCHANGED <<nonConvVars, lreq, lctx, lresp, upstream, ac>>

\* handle_auth_check, managed mode, up to the outcome of get_or_resolve
CheckResolve ==
    /\ ac.pc = "idle"
    /\ \E bearer \in BOOLEAN, resolved \in {"ok", "invalid", "error"} :
        LET r == handle_auth_check(counters, today, limits, bearer, resolved, TRUE, TRUE,
                                   TRUE, TRUE, TRUE)
        IN  ac' = IF r.status \in {401, 500}
                  THEN [pc |-> "idle", trace |-> <<"resolve_token", "reject">>]
                  ELSE [pc |-> "admitted", trace |-> <<"resolve_token">>]
    /\ UNCHANGED <<nonConvVars, turns, lpc, lreq, lctx, lresp, upstream, ltrace, lhist, nTurn>>

\* ... and from the body parse to the response
CheckParse ==
    /\ ac.pc = "admitted"
    /\ \E has_model, pipe_found \in BOOLEAN :
        LET r == handle_auth_check(counters, today, limits, TRUE, "ok", has_model, pipe_found,
                                   TRUE, TRUE, TRUE)
        IN  ac' = [pc |-> "idle",
                   trace |-> IF r.status = 200 THEN ac.trace \o <<"parse", "respond">>
                             ELSE ac.trace \o <<"parse", "reject">>]
    /\ UNCHANGED <<nonConvVars, turns, lpc, lreq, lctx, lresp, upstream, ltrace, lhist, nTurn>>

NextLlm ==
    \/ LlmParse
    \/ LlmResolve
    \/ LlmRoute
    \/ LlmSend
    \/ LlmStream
    \/ CheckResolve
    \/ CheckParse

SpecLlm == InitLlm /\ [][NextLlm]_vars

\* the gateway manages the conversation state of a request: responses-API client,
\* upstream without native support, storage configured
ManagesState(req, store) == req.api = "responses" /\ ~ req.native /\ store # NoStorage

RECURSIVE Chain(_, _)
\* the items of a stored response and of its ancestors, oldest first: for each
\* turn the new items of its request, then its output
Chain(h, id) ==
    IF id \notin DOMAIN h THEN << >>
    ELSE Chain(h, h[id].previous_response_id) \o h[id].new_items \o h[id].output

\* C27: get returns the turn that was put under the id, and for a managed request
\* with previous_response_id = R the input POSTed upstream, and the input stored
\* with the new response id, is the items of R's turn preceded by those of its
\* ancestors, oldest first, followed by the request's new items.
C27_StateChaining ==
    /\ turns # NoStorage =>
         \A id \in DOMAIN turns :
            /\ id \in DOMAIN lhist
            /\ turns[id].output = lhist[id].output
            /\ turns[id].input_items
                 = Chain(lhist, lhist[id].previous_response_id) \o lhist[id].new_items
    /\ ( /\ lpc = "streaming"
         /\ ManagesState(lreq, turns)
         /\ lreq.previous_response_id \in DOMAIN turns )
       => upstream = << Chain(lhist, lreq.previous_response_id) \o lreq.input >>

\* every b in the trace has an a before it
Before(trace, a, b) ==
    \A j \in DOMAIN trace : trace[j] = b => \E i \in 1..(j - 1) : trace[i] = a

\* C29: in handle_auth_check the token resolution completes before the body is
\* parsed; in llm_chat the parse completes before the state hydration, both before
\* the upstream POST, and the POST before the response (status and stream) reaches
\* the client; a rejection is the last phase of its request.
C29_PhaseOrder ==
    /\ Before(ac.trace, "resolve_token", "parse")
    /\ Before(ac.trace, "parse", "respond")
    /\ Before(ltrace, "parse", "hydrate")
    /\ Before(ltrace, "hydrate", "send")
    /\ Before(ltrace, "send", "stream")
    /\ (lresp = 200 \/ lpc = "streaming") =>
          (\E i \in DOMAIN ltrace : ltrace[i] = "send") /\ upstream # NoSend
    /\ \A trace \in {ac.trace, ltrace} :
          \A i \in DOMAIN trace : trace[i] = "reject" => i = Len(trace)
    /\ (\E i \in DOMAIN ltrace : ltrace[i] = "reject") => (lpc = "idle" /\ lresp \in {400, 409, 500})

\* a request has gone through every phase and an admission check has answered 200
C29_Witness ==
    /\ ltrace = <<"parse", "hydrate", "route", "send", "stream">>
    /\ lresp = 200
    /\ ac.trace = <<"resolve_token", "parse", "respond">>

\* ------------------------------------------- order of delivery to usage_log

\* two producers, told apart by the user_id of their events; each awaits its
\* send before it sends again
FifoBodies ==
    { [user_id |-> NoUser, project_id |-> "p1", model |-> "gpt",
       input_tokens |-> 1, output_tokens |-> 0, firewall_mode |-> FALSE],
      [user_id |-> "u1", project_id |-> "p1", model |-> "gpt",
       input_tokens |-> 1, output_tokens |-> 0, firewall_mode |-> TRUE] }

UsageRecordF ==
    \E body \in FifoBodies :
        /\ \A e \in sending : e.user_id # body.user_id
        /\ HandleUsageRecord({body})

NextFifo ==
    \/ UsageRecordF \/ Enqueue
    \/ TickIdle \/ TickCounters \/ TickBatch \/ Recv \/ RecvFlush
    \/ FlushOk \/ FlushFail

SpecFifo == Init /\ [][NextFifo]_vars

\* the events that have been sent or are being sent, wherever they are
Range(seq) == { seq[i] : i \in DOMAIN seq }
EventsInFlight == sending \cup Range(chan) \cup Range(pending) \cup Range(batch)

\* the position of the first row of an event in usage_log, 0 when it has none
FirstInsert(log, request_id) ==
    IF \E i \in DOMAIN log : log[i].request_id = request_id
    THEN CHOOSE i \in DOMAIN log :
            /\ log[i].request_id = request_id
            /\ \A j \in 1..(i - 1) : log[j].request_id # request_id
    ELSE 0

\* C28: when a producer sent e1 before e2 and e2 has a row in usage_log, e1 has
\* one too and its first row precedes the first row of e2, also across failed
\* flushes that push their batch back.
C28_ProducerFifo ==
    \A e2 \in Range(usage_log) :
        \A e1 \in Range(usage_log) \cup EventsInFlight :
            (e1.user_id = e2.user_id /\ e1.request_id < e2.request_id)
              => /\ FirstInsert(usage_log, e1.request_id) > 0
                 /\ FirstInsert(usage_log, e1.request_id) < FirstInsert(usage_log, e2.request_id)

\* a flush failed after it had inserted the first of a producer's two events;
\* the batch was pushed back and flushed again
C28_Witness ==
    /\ nFail > 0
    /\ Len(usage_log) = 3
    /\ usage_log[1].request_id = 1
    /\ usage_log[2].request_id = 1
    /\ usage_log[3].request_id = 2
    /\ usage_log[1].user_id = usage_log[3].user_id

\* ------------------------------------------------------------ period scoping

\* a task calls record_usage with a cost that reaches the limit at once
PRecord ==
    /\ nRec < MaxRecords
    /\ \E et \in {"project"}, id \in Projects, pt \in PeriodTypes :
        /\ counters' = record_usage(counters, today, et, id, pt, CheckLimit)
        /\ hRet' = record_usage_ret(counters, today, et, id, pt, CheckLimit)
        /\ hKey' = CurrentKey(et, id, pt, today)
    /\ hOp' = "record"
    /\ nRec' = nRec + 1
    /\ UNCHANGED <<authVars, bgVars, today, hDeltas, hOut, histVars, handlerVars, chan, flusherVars,
                   storeVars>>

\* a task calls check_budget; hRet is 1 for true and 0 for false
CCheck ==
    /\ \E et \in {"project"}, id \in Projects, pt \in PeriodTypes :
        /\ hRet' = IF check_budget(counters, today, et, id, pt, CheckLimit) THEN 1 ELSE 0
        /\ hKey' = CurrentKey(et, id, pt, today)
    /\ hOp' = "check"
    /\ UNCHANGED <<authVars, bgVars, counters, today, hDeltas, hOut, nRec, histVars, handlerVars, chan,
                   flusherVars, storeVars>>

\* tasks call the counters while the days pass and the flusher's tick arm
\* flushes them
NextPeriod ==
    \/ PRecord \/ CCheck \/ CGet
    \/ TickIdle \/ TickCounters \/ FlushOk \/ FlushFail
    \/ AdvanceDay

SpecPeriod == Init /\ [][NextPeriod]_vars

\* today's date for daily, the first day of the current month for monthly
StartOfPeriod(period_type) == IF period_type = "daily" THEN today.d ELSE today.m

KeyOfToday(key) ==
    [entity_type |-> key.entity_type, entity_id |-> key.entity_id,
     period_type |-> key.period_type, period_start |-> StartOfPeriod(key.period_type)]

\* the call whose result the harness holds was made in this step
Called(op) == hOp' = op /\ <<hOp, hRet, hKey, nRec>>' # <<hOp, hRet, hKey, nRec>>

\* C30 (period scoping): record adds to the counter of today's date (daily) or
\* of the first day of the current month (monthly) and to no other; get
\* returns, and check compares, the counter of that period only, so that an
\* entity over its limit in a past period is admitted in the new one;
\* get_current_spending, whenever it is called, returns the durable row of that
\* period; and a flush carries each counter's delta to the durable row of the
\* same key, period_start included.
C30_PeriodScoping ==
    [][/\ Called("record") =>
             \A k \in (DOMAIN counters) \cup (DOMAIN counters') :
                 IF k = KeyOfToday(hKey')
                 THEN Val(counters', k) # Val(counters, k) /\ Val(counters', k) = hRet'
                 ELSE Val(counters', k) = Val(counters, k)
       /\ Called("get") => hRet' = Val(counters, KeyOfToday(hKey'))
       /\ \A id \in Projects, pt \in PeriodTypes :
             get_current_spending(durable, today, "project", id, pt)
               = Val(durable, KeyOfToday(CounterKey("project", id, pt, 0)))
       /\ Called("check") =>
             (hRet' = 1 <=> Val(counters, KeyOfToday(hKey')) < CheckLimit)
       /\ (deltas' # deltas /\ deltas' # EmptyMap) =>
             \A k \in DOMAIN deltas' : deltas'[k] = Val(counters, k)
       /\ \A k \in (DOMAIN durable) \cup (DOMAIN durable') :
             Val(durable', k) # Val(durable, k) =>
                 /\ k \in DOMAIN deltas
                 /\ Val(durable', k) = Val(durable, k) + deltas[k]]_vars

\* the day has rolled over; the project's counter of the past day is at the
\* limit, in memory and in its own durable row, no row of today exists, and
\* the check of today's counter has just answered true
C30_Witness ==
    LET old == CounterKey("project", "p1", "daily", 0)
    IN  /\ today.d = 1
        /\ hOp = "check" /\ hRet = 1 /\ hKey = CounterKey("project", "p1", "daily", 1)
        /\ old \in DOMAIN counters /\ counters[old] >= CheckLimit
        /\ old \in DOMAIN durable /\ durable[old] >= CheckLimit
        /\ \A k \in DOMAIN durable : k.period_start = 0

\* --------------------------------------------------------- startup hydration

\* the rows spending_counters may hold when the process starts: the project's
\* daily and monthly rows of the period that starts on day 0
HydrateTables ==
    { [k \in {CounterKey("project", "p1", pt, 0) : pt \in on} |-> f[k.period_type]] :
        on \in SUBSET PeriodTypes, f \in [PeriodTypes -> 1..CheckLimit] }

InitHydrate ==
    /\ InitProcess
    /\ limits = EmptyMap
    /\ usage_log = << >>
    /\ durable \in HydrateTables
    /\ custom = EmptyMap
    /\ tok = ValidToken
    /\ keys = EmptyMap
    /\ turns = EmptyMap

\* load_current_counters: the daily rows of today and the monthly rows of the
\* first day of this month
load_current_counters(dur, date) ==
    [k \in {x \in DOMAIN dur : \/ x.period_type = "daily" /\ x.period_start = date.d
                               \/ x.period_type = "monthly" /\ x.period_start = date.m}
       |-> dur[k]]

\* SpendingCounters::hydrate: fetch_add of every record on its key
hydrate(c, records) ==
    [x \in (DOMAIN c) \cup (DOMAIN records) |-> Val(c, x) + Val(records, x)]

\* main, before the workers start: the counters are hydrated unless the
\* connection or the query fails. recorded is set to the durable totals: what
\* had been recorded and flushed before the restart.
Hydrate ==
    /\ hOp = "init"
    /\ \E client_ok, load_ok \in BOOLEAN :
        /\ counters' = IF client_ok /\ load_ok
                       THEN hydrate(counters, load_current_counters(durable, today))
                       ELSE counters
        /\ hOp' = IF client_ok /\ load_ok THEN "hydrate" ELSE "hydrate failed"
    /\ recorded' = durable
    /\ hRet' = 0
    /\ hKey' = NoKey
    /\ UNCHANGED <<authVars, bgVars, today, hDeltas, hOut, nRec, snapPre, snapped, handlerVars, chan,
                   flusherVars, storeVars>>

\* no usage is recorded; a tick that precedes the hydration finds no counter
NextHydrate ==
    \/ Hydrate
    \/ TickIdle \/ TickCounters \/ FlushOk \/ FlushFail
    \/ AdvanceDay

SpecHydrate == InitHydrate /\ [][NextHydrate]_vars

\* C31: after the counters were hydrated and with no usage recorded, successful
\* flushes leave every durable counter at the value it had before the restart.
C31_HydrateKeepsDurable ==
    (hOp = "hydrate" /\ nFail = 0)
      => \A k \in (DOMAIN durable) \cup (DOMAIN recorded) : Val(durable, k) = Val(recorded, k)

\* ------------------------------------------- the calculator's counter updates

\* the micro-cents price_batch adds to each of the project's counters for the
\* rows the calculator has marked as priced, each row counted once at the cost
\* it was marked with
RECURSIVE MarkedCost(_, _)
MarkedCost(log, n) ==
    IF n = 0 THEN 0
    ELSE MarkedCost(log, n - 1)
           + (IF Val(marks, n) >= 1 /\ to_micro_cents(log[n].cost_cents) > 0
              THEN to_micro_cents(log[n].cost_cents) ELSE 0)

\* C32: once every row is priced, each of the project's counters holds the cost
\* of every row the calculator priced exactly once, also after runs whose
\* mark_usage_priced failed entirely or after some rows.
C32_PricedCostAddedOnce ==
    (ppc = "idle" /\ \A i \in 1..Len(usage_log) : usage_log[i].is_priced)
      => \A pt \in PeriodTypes :
            Val(counters, CurrentKey("project", "p1", pt, today))
              = MarkedCost(usage_log, Len(usage_log))

\* ------------------------------------------- record against a running snapshot

\* snapshot_and_reset begins to iterate the map. snapPre holds the entries the
\* iteration has still to visit (an entry inserted later stays in the map for
\* the next snapshot).
SnapStart ==
    /\ fpc = "idle"
    /\ pending \o chan = << >>
    /\ fpc' = "snapshot"
    /\ snapPre' = counters
    /\ snapped' = TRUE
    /\ deltas' = EmptyMap
    /\ UNCHANGED <<authVars, bgVars, counters, today, harnessVars, handlerVars, chan, pending, fpath,
                   batch, fres, storeVars, recorded>>

\* one entry of the iteration: swap(0), and the pair is pushed if val > 0
SnapKey ==
    /\ fpc = "snapshot"
    /\ \E k \in DOMAIN snapPre :
        /\ counters' = [counters EXCEPT ![k] = 0]
        /\ deltas' = IF counters[k] > 0
                     THEN [x \in (DOMAIN deltas) \cup {k} |-> IF x = k THEN counters[k] ELSE deltas[x]]
                     ELSE deltas
        /\ snapPre' = [x \in (DOMAIN snapPre) \ {k} |-> snapPre[x]]
    /\ UNCHANGED <<authVars, bgVars, today, harnessVars, handlerVars, chan, pending, fpc, fpath, batch,
                   fres, storeVars, recorded, snapped>>

\* the iteration is over: the tick arm continues when there is nothing to
\* flush and calls flush_counters(deltas) otherwise
SnapEnd ==
    /\ fpc = "snapshot"
    /\ DOMAIN snapPre = {}
    /\ fpc' = IF deltas = EmptyMap THEN "idle" ELSE "flushing"
    /\ fpath' = IF deltas = EmptyMap THEN fpath ELSE "counters"
    /\ UNCHANGED <<authVars, bgVars, counters, today, harnessVars, handlerVars, chan, pending, batch,
                   deltas, fres, storeVars, histVars>>

\* tasks record while the flusher's tick arm snapshots entry by entry and flushes
NextSnapshot == CRecord \/ SnapStart \/ SnapKey \/ SnapEnd \/ FlushOk \/ FlushFail

SpecSnapshot == Init /\ [][NextSnapshot]_vars

\* C33: for every key, the in-memory value, the delta in flight and the
\* durable value add up to the total recorded, whatever the interleaving of
\* record with the snapshot's swaps.
C33_RecordedConserved ==
    \A k \in (DOMAIN counters) \cup (DOMAIN recorded) \cup (DOMAIN durable) :
        Val(counters, k) + Val(deltas, k) + Val(durable, k) = Val(recorded, k)

\* ------------------------------------------- failed reads of the budget checker

\* C34: a run that fails before its loop (no connection, no limits) leaves the
\* blocked set as it was, and a run that completes never drops a project that
\* was blocked before it and is still over an active project limit, whether
\* or not the read of its counter failed.
C34_FailedReadKeepsBlocked ==
    [][/\ (bpc = "idle" /\ bpc' = "idle") => blocked' = blocked
       /\ BudgetRunCompletes => (bPrev \cap OverLimitProjects') \subseteq blocked']_vars

\* -------------------------------------------------- from recording to blocking

\* spending_limits of the blocking runs: a daily limit of one cent on the
\* project, reached by one request of DeliveryBodies
BlockLimits ==
    [k \in { [entity_type |-> "project", entity_id |-> "p1", period_type |-> "daily"] }
       |-> [limit_cents |-> 1, is_active |-> TRUE]]

InitBlock ==
    /\ InitProcess
    /\ limits = BlockLimits
    /\ usage_log = << >>
    /\ durable = EmptyMap
    /\ custom = EmptyMap
    /\ tok = ValidToken
    /\ keys = EmptyMap
    /\ turns = EmptyMap

\* check_budgets up to the end of its loop when the store answers every read
BCReadOk ==
    /\ bpc = "idle"
    /\ newly_blocked' = compute_newly_blocked(limits, durable, today,
                            [x \in get_all_active_spending_limits(limits) |-> TRUE])
    /\ bpc' = "clearing"
    /\ bPrev' = blocked
    /\ UNCHANGED <<authVars, priceVars, cacheVars, extVars, restVars, counters, today, harnessVars, handlerVars, chan,
                   flusherVars, storeVars, histVars, blocked, bres, seen>>

\* the store is available: no flush and no read fails
NextBlock ==
    \/ UsageRecordD \/ Enqueue
    \/ TickIdle \/ TickCounters \/ TickBatch \/ Recv \/ RecvFlush \/ FlushOk
    \/ BCReadOk \/ BCClear \/ BCInsert
    \/ AdvanceDay

SpecBlock == InitBlock /\ [][NextBlock]_vars

\* both intervals keep ticking, a started flush and a started run finish
FairBlock ==
    /\ SpecBlock
    /\ WF_vars(Enqueue)
    /\ WF_vars(TickIdle \/ TickCounters \/ TickBatch)
    /\ WF_vars(FlushOk)
    /\ WF_vars(BCReadOk)
    /\ WF_vars(BCClear)
    /\ WF_vars(BCInsert)

\* the amounts recorded for the project on day d have reached its daily limit
ReachedLimit(d) ==
    /\ today.d = d
    /\ Val(recorded, CounterKey("project", "p1", "daily", d)) >= MicroPerCent

\* C35: once the amounts recorded for the project in the current period reach
\* its limit, the project is eventually in the blocked set and from then on
\* stays in it until the period ends.
C35_EventuallyBlockedForGood ==
    \A d \in 0..MaxDay : ReachedLimit(d) ~> [](today.d # d \/ "p1" \in blocked)

\* ------------------------------------------------------- the size threshold

\* the number of events the flusher takes from the channel in this step
Received == IF Len(chan') < Len(chan) THEN Len(chan) - Len(chan') ELSE 0

UnpricedLog ==
    << UsageEvent([user_id |-> NoUser, project_id |-> "p1", model |-> "other",
                   input_tokens |-> 1, output_tokens |-> 1], 0, 0, FALSE) >>

StoredTotals == [k \in {CounterKey("project", "p1", "daily", 0)} |-> 1]

InitWorkers ==
    /\ InitProcess
    /\ limits = EmptyMap
    /\ usage_log = UnpricedLog
    /\ durable = StoredTotals
    /\ custom = EmptyMap
    /\ tok = ValidToken
    /\ keys = EmptyMap
    /\ turns = EmptyMap

\* the hydration touches only the counters, which no worker reads or writes
\* before it: a worker's step taken before it is the same step taken after it
NextWorkers ==
    \/ Hydrate
    \/ TickIdle \/ TickCounters \/ FlushOk \/ FlushFail
    \/ PriceSelect \/ PriceErr \/ PriceMark
    \/ BCRead \/ BCErr \/ BCClear
    \/ ReloadErr \/ ReloadQuery \/ ReloadSwap

SpecWorkers == InitWorkers /\ [][NextWorkers]_vars

\* every interval keeps ticking, and the store is available again in the end:
\* a started flush, pricing run, budget run and reload eventually go through
FairWorkers ==
    /\ SpecWorkers
    /\ WF_vars(TickIdle \/ TickCounters \/ FlushOk)
    /\ WF_vars(PriceSelect \/ PriceMark)
    /\ WF_vars(BCRead \/ BCClear)
    /\ WF_vars(ReloadQuery \/ ReloadSwap)

AllPriced == \A i \in 1..Len(usage_log) : usage_log[i].is_priced

\* C37: after a failing tick of the flusher, the price calculator, the budget
\* checker or the registry refresh, the worker ticks again and a later tick
\* succeeds.
C37_WorkersSurviveErrors ==
    /\ (fres = "err") ~> (fres = "ok")
    /\ (nPriceFail > 0) ~> AllPriced
    /\ (bres = "err") ~> (bres = "ok")
    /\ (rres = "err") ~> (rres = "ok")

\* the flusher and the calculator have failed and later succeeded, and the
\* checker and the refresh have completed a run
C37_Witness ==
    /\ nFail > 0 /\ fres = "ok"
    /\ nPriceFail > 0 /\ AllPriced /\ ppc = "idle" /\ usage_log # << >>
    /\ bres = "ok"
    /\ rres = "ok"

\* ------------------------------------------------- the provider of a model name

\* model names with and without a provider prefix, in both cases, with a second
\* slash, of a well-known family and of none
DeriveModels ==
    {<<"o", "1">>, <<"O", "1">>, <<"O", "p", "e", "n", "A", "I", "/", "o", "1">>,
     <<"z", "z">>, <<"Z", "Z">>, <<"Z", "Z", "/", "o", "/", "1">>,
     <<"c", "l", "a", "u", "d", "e">>}

DeriveProviders == {<<"o", "p", "e", "n", "a", "i">>, <<"O", "p", "e", "n", "A", "I">>, <<"z", "z">>, <<"Z", "Z">>}
DeriveFilters == {NoFilter, <<"o", "1">>, <<"o", "/", "1">>}

DeriveLists ==
    UNION { { [i \in 1..n |-> [id |-> i, provider |-> f[i][1], model_filter |-> f[i][2],
                               api_key_encrypted |-> <<"key", i>>]] :
                f \in [1..n -> DeriveProviders \X DeriveFilters] } : n \in 0..MaxPipes }

InitDerive ==
    /\ InitServices
    /\ limits = EmptyMap
    /\ usage_log = << >>
    /\ durable = EmptyMap
    /\ custom = EmptyMap
    /\ tok = ValidToken
    /\ keys = EmptyMap
    /\ turns = EmptyMap
    /\ call \in [fn : {"select_pipe"}, pipes : DeriveLists, model : DeriveModels]

NextDerive == SelectPipe

SpecDerive == InitDerive /\ [][NextDerive]_vars

\* the position of the first slash of a model name that has one
FirstSlash(model) ==
    CHOOSE i \in DOMAIN model :
        model[i] = "/" /\ \A j \in DOMAIN model : model[j] = "/" => i <= j

HasSlash(model) == \E i \in DOMAIN model : model[i] = "/"

\* the well-known families the model names above belong to: o1* is openai,
\* claude* is anthropic
WellKnown ==
    [m \in {<<"o", "1">>, <<"c", "l", "a", "u", "d", "e">>} |->
        IF m = <<"o", "1">> THEN <<"o", "p", "e", "n", "a", "i">>
        ELSE <<"a", "n", "t", "h", "r", "o", "p", "i", "c">>]

\* the provider and the model id of a model name, as stated
StatedProvider(model) ==
    IF HasSlash(model) THEN to_lowercase(SubSeq(model, 1, FirstSlash(model) - 1))
    ELSE IF to_lowercase(model) \in DOMAIN WellKnown THEN WellKnown[to_lowercase(model)]
    ELSE model

StatedModelId(model) ==
    IF HasSlash(model) THEN SubSeq(model, FirstSlash(model) + 1, Len(model)) ELSE model

SameIgnoringCase(a, b) == to_lowercase(a) = to_lowercase(b)

\* the pipes of the list whose provider is the stated provider, compared
\* case-insensitively, and whose filter admits the model
StatedMatches(pipes, model) ==
    {i \in DOMAIN pipes :
        /\ SameIgnoringCase(pipes[i].provider, StatedProvider(model))
        /\ \/ pipes[i].model_filter = NoFilter
           \/ FilterEntries(pipes[i].model_filter)
                 \cap {<<"*">>, model, StatedModelId(model)} # {}}

NoAliases == [x \in {<<"<none>">>} |-> << >>]

\* a faulty variant of resolve_model_alias: the target is looked up again
resolve_model_alias_chained(model_from_request, model_aliases) ==
    IF model_aliases # NoAliases /\ model_from_request \in DOMAIN model_aliases
    THEN LET target == model_aliases[model_from_request]
         IN  IF target \in DOMAIN model_aliases THEN model_aliases[target] ELSE target
    ELSE model_from_request

\* resolve_model_alias: aliases.get(model_from_request).target, else the model
resolve_model_alias(model_from_request, model_aliases) ==
    IF model_aliases # NoAliases /\ model_from_request \in DOMAIN model_aliases
    THEN model_aliases[model_from_request]
    ELSE model_from_request

\* alias_resolved_model.split_once('/'): the part after the first slash, else
\* the whole string
model_name_only(alias_resolved_model) ==
    LET i == find_char(alias_resolved_model, "/")
    IN  IF i = 0 THEN alias_resolved_model
        ELSE SubSeq(alias_resolved_model, i + 1, Len(alias_resolved_model))

\* parse_and_validate_request from the parsed body on: 400 when the resolved
\* model has no provider, else the prepared request, whose body carries
\* model_name_only (client_request.set_model)
parse_and_validate_request(model_from_request, model_aliases, llm_providers) ==
    LET alias_resolved_model == resolve_model_alias(model_from_request, model_aliases)
    IN  IF ~ get(llm_providers, alias_resolved_model).ok
        THEN [ok |-> FALSE, err |-> "model not found", status |-> 400,
              alias_resolved_model |-> alias_resolved_model,
              body_model |-> model_from_request]
        ELSE [ok |-> TRUE, err |-> "", status |-> 0,
              alias_resolved_model |-> alias_resolved_model,
              body_model |-> model_name_only(alias_resolved_model)]

\* the client's model names, the alias names and the targets of the aliases
ClientModels ==
    {<<"m", "1">>, <<"o", "p", "e", "n", "a", "i", "/", "g", "p", "t", "-", "4">>,
     <<"a", "1">>, <<"a", "2">>, <<"z", "z">>}
AliasNames == {<<"a", "1">>, <<"a", "2">>}
AliasTargets ==
    {<<"a", "1">>, <<"o", "p", "e", "n", "a", "i", "/", "g", "p", "t", "-", "4">>, <<"m", "1">>}
AliasMaps == {NoAliases} \cup UNION { [on -> AliasTargets] : on \in SUBSET AliasNames }

\* configurations that load: a static entry, a wildcard entry, and a static
\* entry named by its provider-prefixed model beside a static entry
ModelConfigs ==
    { << [name |-> <<"m", "1">>, model |-> NoModel, base |-> 1, default |-> FALSE] >>,
      << [name |-> <<"o", "p", "e", "n", "a", "i", "/", "*">>, model |-> <<"*">>, base |-> 1, default |-> FALSE] >>,
      << [name |-> <<"o", "p", "e", "n", "a", "i", "/", "g", "p", "t", "-", "4">>,
          model |-> <<"g", "p", "t", "-", "4">>, base |-> 1, default |-> FALSE],
         [name |-> <<"m", "1">>, model |-> NoModel, base |-> 2, default |-> FALSE] >> }

InitModel ==
    /\ InitServices
    /\ limits = EmptyMap
    /\ usage_log = << >>
    /\ durable = EmptyMap
    /\ custom = EmptyMap
    /\ tok = ValidToken
    /\ keys = EmptyMap
    /\ turns = EmptyMap
    /\ call \in [fn : {"llm_chat"}, model : ClientModels, aliases : AliasMaps,
                 config : ModelConfigs]

\* Phase 1 of llm_chat on a chat-completions body that parses and names
\* call.model, with the aliases and the providers of the configuration
LlmParseModel ==
    /\ call.fn = "llm_chat"
    /\ ret = NoRet
    /\ lpc = "idle"
    /\ LET r == parse_and_validate_request(call.model, call.aliases, try_from(call.config))
       IN  /\ ret' = r
           /\ lreq' = [api |-> "chat", input |-> <<"A">>, previous_response_id |-> NoId,
                       valid |-> r.ok, native |-> FALSE, lookup |-> "none"]
           /\ lpc' = phase_after_parse(r.ok)
           /\ lresp' = r.status
           /\ ltrace' = IF r.ok THEN <<"parse">> ELSE <<"parse", "reject">>
    /\ UNCHANGED <<counters, today, harnessVars, handlerVars, chan, flusherVars, storeVars,
                   histVars, authVars, priceVars, budgetVars, cacheVars, call, regVars,
                   turns, lctx, upstream, lhist, nTurn, ac>>

NextModel ==
    \/ LlmParseModel
    \/ LlmResolve
    \/ LlmRoute
    \/ LlmSend
    \/ LlmStream

SpecModel == InitModel /\ [][NextModel]_vars

\* the model a request resolves to, as stated: the target of the alias of the
\* client model, looked up once, or the client model
StatedResolved(model, aliases) ==
    IF aliases = NoAliases THEN model
    ELSE IF \E a \in DOMAIN aliases : a = model THEN aliases[model]
    ELSE model

\* a model name with the text up to its first slash removed
AfterFirstSlash(model) ==
    IF HasSlash(model) THEN SubSeq(model, FirstSlash(model) + 1, Len(model)) ELSE model

\* C39: the resolved model is the target of the client model's alias (looked up
\* once) or the client model; when no provider is configured for it the request
\* is answered 400 and nothing is sent upstream; otherwise the body's model
\* becomes the resolved model without the text up to its first slash.
C39_ModelResolution ==
    (call.fn = "llm_chat" /\ ret # NoRet) =>
        LET resolved == StatedResolved(call.model, call.aliases)
        IN  /\ ret.alias_resolved_model = resolved
            /\ IF get(try_from(call.config), resolved).ok
               THEN /\ ret.ok
                    /\ ret.body_model = AfterFirstSlash(resolved)
                    /\ lresp # 400
               ELSE /\ ~ ret.ok
                    /\ lresp = 400
                    /\ lpc = "idle"
                    /\ upstream = NoSend

\* C39 witness: an alias whose target is another alias was resolved one step
\* and rejected, although that alias's own target has a provider
C39_Witness ==
    /\ call.fn = "llm_chat"
    /\ ret # NoRet
    /\ call.aliases # NoAliases
    /\ call.model \in DOMAIN call.aliases
    /\ call.aliases[call.model] \in DOMAIN call.aliases
    /\ get(try_from(call.config), call.aliases[call.aliases[call.model]]).ok
    /\ lresp = 400
    /\ upstream = NoSend

\* ------------------------------------------------- building LlmProviders

\* the entries of a provider list: static entries with and without a model, a
\* wildcard entry whose provider has a known model, each the default or not
BuildNames == {<<"g", "p", "t", "-", "4">>, <<"m", "1">>, <<"o", "p", "e", "n", "a", "i", "/", "*">>}
BuildModels == {<<"*">>, <<"g", "p", "t", "-", "4">>, <<"m", "2">>, NoModel}
BuildRequested == {<<"g", "p", "t", "-", "4">>, <<"m", "1">>, <<"m", "2">>}

BuildConfigs ==
    UNION { { [i \in 1..n |-> [name |-> f[i][1], model |-> f[i][2], base |-> i,
                               default |-> f[i][3]]] :
                f \in [1..n -> BuildNames \X BuildModels \X BOOLEAN] } : n \in 0..MaxProviders }

InitBuild ==
    /\ InitServices
    /\ limits = EmptyMap
    /\ usage_log = << >>
    /\ durable = EmptyMap
    /\ custom = EmptyMap
    /\ tok = ValidToken
    /\ keys = EmptyMap
    /\ turns = EmptyMap
    /\ call \in [fn : {"get"}, config : BuildConfigs, name : BuildRequested]

NextBuild == GetProvider

SpecBuild == InitBuild /\ [][NextBuild]_vars

\* the static (non-wildcard) entries of a list, and the keys of an entry
StaticEntries(config) == {i \in DOMAIN config : ~ is_wildcard(config[i])}
EntryKeys(entry) == {entry.name} \cup (IF entry.model = NoModel THEN {} ELSE {entry.model})

TwoDefaults(config) ==
    \E i, j \in DOMAIN config : i # j /\ config[i].default /\ config[j].default

SharedKey(config) ==
    \E i, j \in StaticEntries(config) :
        i # j /\ EntryKeys(config[i]) \cap EntryKeys(config[j]) # {}

\* C40: the build fails for an empty list (EmptySource), for two default
\* entries (MoreThanOneDefault) and for two static entries that share a name or
\* a model key (DuplicateName); when it succeeds, get of a static entry's name
\* or model returns that entry, wherever the wildcard entries stand.
C40_StaticEntriesKept ==
    (call.fn = "get" /\ ret # NoRet) =>
        LET built == try_from(call.config)
        IN  /\ call.config = << >> => built.err = "EmptySource"
            /\ TwoDefaults(call.config) => built.err \in {"MoreThanOneDefault", "DuplicateName"}
            /\ built.err = "MoreThanOneDefault" => TwoDefaults(call.config)
            /\ SharedKey(call.config) => built.err \in {"MoreThanOneDefault", "DuplicateName"}
            /\ (SharedKey(call.config) /\ ~ TwoDefaults(call.config))
                  => built.err = "DuplicateName"
            /\ built.err = "" =>
                  \A i \in StaticEntries(call.config) :
                      call.name \in EntryKeys(call.config[i]) =>
                          ret.ok /\ ret.provider = call.config[i]

====
